---- MODULE Spec2Model ----
(***************************************************************************)
(* A model of the PTY terminal relay server (src/unnamed/part_000): the    *)
(* token codec, the session store, the HTTP control API and the WebSocket  *)
(* gateway.  Strings are sequences of one-character strings, so that       *)
(* formatting, splitting, parseInt and hex decoding are modelled by what   *)
(* they do.  Date.now() is the model clock.                                *)
(***************************************************************************)
EXTENDS Integers, Sequences, FiniteSets, TLC

\* ------------------------------------------------------------------ bounds
\* The clock runs over 0..MaxTime.
MaxTime == 2
\* Bytes of a digest (HMAC-SHA256 has 32; the model keeps the digest short).
DigestBytes == 2
\* Session objects (spawned processes) over a run.
MaxObj == 2
\* Connections over a run.
MaxConn == 2
\* Output chunks of one process.
MaxChunks == 2
\* Client messages forwarded to one process.
MaxForward == 1
\* Invocations counted per handler of the bus.
MaxCalls == 3
\* How deep emissions nest: a handler that emits does so from an emission
\* nested less deep than this.
MaxDepth == 1
\* emitAsync calls at their await at one time.
MaxAwaiting == 1
\* ModuleEntry objects built for the module id of the model.
MaxEntries == 2
\* start and stop calls of the registry at their await at one time.
MaxPending == 2

\* ------------------------------------------------------- program constants
\* TOKEN_TTL and SESSION_TIMEOUT are read from the environment.  The model
\* runs the server with a token that lives one clock unit and with sessions
\* that are idle once more than SESSION_TIMEOUT = 0 units have passed, so
\* that a token can outlive the session it was created for.
TOKEN_TTL == 1
SESSION_TIMEOUT == 0

\* CONTEXT_REQUEST_TTL_MS, in clock units.
CONTEXT_REQUEST_TTL_MS == 1

\* A value of the environment, or of a module constant made from it: a
\* string, or undefined / null (set = FALSE).
Undefined == [set |-> FALSE, value |-> <<>>]
Str(s) == [set |-> TRUE, value |-> s]

\* A truthiness under which the empty string counts.
TruthyWhenSet(v) == v.set

\* What `||` and `!` make of such a value: undefined, null and "" are falsy.
Truthy(v) == v.set /\ v.value # <<>>

\* 'dev-secret-change-in-production'
DevSecret == <<"k">>

\* process.env.SIGN_SECRET ||
\*     (process.env.NODE_ENV === 'production' ? null : 'dev-secret-...')
SignSecret(mode, envSecret) ==
    IF Truthy(envSecret) THEN envSecret
    ELSE IF mode = "production" THEN Undefined
    ELSE Str(DevSecret)

\* SIGN_SECRET of a server started outside production with no secret in its
\* environment.
SIGN_SECRET == SignSecret("development", Undefined).value

\* ----------------------------------------------------------------- strings
Digits == <<"0", "1", "2", "3", "4", "5", "6", "7", "8", "9">>
HexLower == <<"0", "1", "2", "3", "4", "5", "6", "7", "8", "9",
              "a", "b", "c", "d", "e", "f">>
HexUpper == <<"0", "1", "2", "3", "4", "5", "6", "7", "8", "9",
              "A", "B", "C", "D", "E", "F">>
\* The characters the model's strings are made of; a character's code is its
\* place in this list.
Alphabet == <<"0", "1", "2", "3", "4", "5", "6", "7", "8", "9",
              "a", "b", "c", "d", "e", "f", "A", "B", "C", "D", "E", "F",
              "g", "k", "p", "t", "y", "x", "z", ":", "|", ".", "-", "+",
              " ", "/", ",", "&", "=", "?", "%">>

IndexOf(seq, c) == CHOOSE i \in 1..Len(seq) : seq[i] = c
Member(seq, c) == \E i \in 1..Len(seq) : seq[i] = c
CharCode(c) == IndexOf(Alphabet, c)

IsDigit(c) == Member(Digits, c)
DigitVal(c) == IndexOf(Digits, c) - 1
IsHex(c) == Member(HexLower, c) \/ Member(HexUpper, c)
HexVal(c) == IF Member(HexLower, c) THEN IndexOf(HexLower, c) - 1
             ELSE IndexOf(HexUpper, c) - 1

Drop(s, n) == SubSeq(s, n + 1, Len(s))
Take(s, n) == SubSeq(s, 1, n)

\* `${n}` for a number: its decimal digits, with a sign when negative.
RECURSIVE NatToStr(_)
NatToStr(n) == IF n < 10 THEN <<Digits[n + 1]>>
               ELSE NatToStr(n \div 10) \o <<Digits[(n % 10) + 1]>>
NumToStr(n) == IF n < 0 THEN <<"-">> \o NatToStr(0 - n) ELSE NatToStr(n)

\* String.prototype.split(sep) for a one-character separator.
RECURSIVE SplitFrom(_, _, _)
SplitFrom(s, sep, cur) ==
    IF s = <<>> THEN <<cur>>
    ELSE IF Head(s) = sep THEN <<cur>> \o SplitFrom(Tail(s), sep, <<>>)
    ELSE SplitFrom(Tail(s), sep, Append(cur, Head(s)))
Split(s, sep) == SplitFrom(s, sep, <<>>)

\* parseInt(str, 10): leading blanks are skipped, one sign is read, then the
\* longest run of digits; what follows is ignored.  No digit at all: NaN.
RECURSIVE SkipBlanks(_)
SkipBlanks(s) == IF s # <<>> /\ Head(s) = " " THEN SkipBlanks(Tail(s)) ELSE s
RECURSIVE DigitRun(_, _, _)
DigitRun(s, acc, seen) ==
    IF s # <<>> /\ IsDigit(Head(s))
    THEN DigitRun(Tail(s), acc * 10 + DigitVal(Head(s)), TRUE)
    ELSE [nan |-> ~seen, val |-> acc]
parseInt(str) ==
    LET s == SkipBlanks(str)
        neg == s # <<>> /\ Head(s) = "-"
        body == IF s # <<>> /\ Head(s) \in {"-", "+"} THEN Tail(s) ELSE s
        r == DigitRun(body, 0, FALSE)
    IN  [nan |-> r.nan, val |-> IF neg THEN 0 - r.val ELSE r.val]

\* Buffer.from(str, 'hex'): whole pairs of hex digits are decoded up to the
\* first character that is none; a trailing odd digit is dropped.
RECURSIVE BufferFromHex(_)
BufferFromHex(s) ==
    IF Len(s) >= 2 /\ IsHex(s[1]) /\ IsHex(s[2])
    THEN <<HexVal(s[1]) * 16 + HexVal(s[2])>> \o BufferFromHex(Drop(s, 2))
    ELSE <<>>

\* digest('hex') of a number below 256^DigestBytes: 2 * DigestBytes digits.
RECURSIVE ToHex(_, _)
ToHex(n, width) ==
    IF width = 0 THEN <<>>
    ELSE ToHex(n \div 16, width - 1) \o <<HexLower[(n % 16) + 1]>>

RECURSIVE Pow(_, _)
Pow(b, e) == IF e = 0 THEN 1 ELSE b * Pow(b, e - 1)
DigestSpace == Pow(256, DigestBytes)

\* crypto.createHmac('sha256', key).update(msg).digest('hex'): a keyed hash
\* of fixed width.  It stands for HMAC-SHA256 in that distinct messages of
\* the model get distinct digests (HmacCollisionFree).
RECURSIVE HashFrom(_, _)
HashFrom(h, s) ==
    IF s = <<>> THEN h
    ELSE HashFrom((h * 31 + CharCode(Head(s)) + 7) % DigestSpace, Tail(s))
Hmac(key, msg) == ToHex(HashFrom(HashFrom(17, key), msg), 2 * DigestBytes)

\* crypto.timingSafeEqual(a, b): throws on buffers of different length.
timingSafeEqual(a, b) ==
    IF Len(a) # Len(b) THEN "throw"
    ELSE IF a = b THEN "true" ELSE "false"

\* ------------------------------------------------------------- token codec
\* A payload that leaves the session id out.
TokenPayloadNoSid(sid, exp) == <<"p", "t", "y", ":">> \o <<"|">> \o NumToStr(exp)

\* `pty:${sid}|${exp}`
TokenPayload(sid, exp) == <<"p", "t", "y", ":">> \o sid \o <<"|">> \o NumToStr(exp)

\* createToken(sid) at Date.now() = t in a server whose SIGN_SECRET is secret
createTokenUnder(secret, sid, t) ==
    LET exp == t + TOKEN_TTL
        signature == Hmac(secret, TokenPayload(sid, exp))
    IN  NumToStr(exp) \o <<".">> \o signature
createToken(sid, t) == createTokenUnder(SIGN_SECRET, sid, t)

\* A test of the expiry that no token passes.
ExpiredAlways(exp, t) == TRUE

\* exp < Date.now(), at Date.now() = t: true when the token is refused as
\* expired.
Expired(exp, t) == exp < t

\* verifyToken(sid, token) at Date.now() = t: "true" | "false" | "throw"
verifyTokenUnder(secret, sid, token, t) ==
    IF token = <<>> \/ sid = <<>> THEN "false"
    ELSE LET parts == Split(token, ".")
         IN  IF Len(parts) # 2 THEN "false"
             ELSE LET exp == parseInt(parts[1])
                      signature == parts[2]
                  IN  IF exp.nan \/ Expired(exp.val, t) THEN "false"
                      ELSE timingSafeEqual(
                               BufferFromHex(signature),
                               BufferFromHex(Hmac(secret,
                                                  TokenPayload(sid, exp.val))))
verifyToken(sid, token, t) == verifyTokenUnder(SIGN_SECRET, sid, token, t)

\* ------------------------------------------------------------------- URLs
\* encodeURIComponent: letters, digits and - _ . ! ~ * ' ( ) stay; every other
\* character becomes %XX.
Unreserved == <<"0", "1", "2", "3", "4", "5", "6", "7", "8", "9",
                "a", "b", "c", "d", "e", "f", "A", "B", "C", "D", "E", "F",
                "g", "k", "p", "t", "y", "x", "z", ".", "-">>
Escaped == <<"|", "&", ":", "/", "=", "?", " ", "+", ",", "%">>
EscapeCodes == << <<"7", "C">>, <<"2", "6">>, <<"3", "A">>, <<"2", "F">>,
                  <<"3", "D">>, <<"3", "F">>, <<"2", "0">>, <<"2", "B">>,
                  <<"2", "C">>, <<"2", "5">> >>

\* A URL built without encoding its parameters.
encodeURIComponentPlain(s) == s

RECURSIVE encodeURIComponent(_)
encodeURIComponent(s) ==
    IF s = <<>> THEN <<>>
    ELSE (IF Member(Unreserved, Head(s)) THEN <<Head(s)>>
          ELSE <<"%">> \o EscapeCodes[IndexOf(Escaped, Head(s))])
         \o encodeURIComponent(Tail(s))

\* The query parser's decoding of one key or value: '+' is a blank, %XX the
\* character of that code; a '%' that starts no known code stays.
RECURSIVE unescape(_)
unescape(s) ==
    IF s = <<>> THEN <<>>
    ELSE IF Head(s) = "+" THEN <<" ">> \o unescape(Tail(s))
    ELSE IF Head(s) = "%" /\ Len(s) >= 3 /\ Member(EscapeCodes, <<s[2], s[3]>>)
         THEN <<Escaped[IndexOf(EscapeCodes, <<s[2], s[3]>>)]>> \o unescape(Drop(s, 3))
    ELSE <<Head(s)>> \o unescape(Tail(s))

FirstIndex(s, c) == IF Member(s, c) THEN CHOOSE i \in 1..Len(s) :
                        s[i] = c /\ \A j \in 1..(i - 1) : s[j] # c
                    ELSE 0

\* url.parse(u, true).pathname
UrlPathname(u) == IF FirstIndex(u, "?") = 0 THEN u ELSE Take(u, FirstIndex(u, "?") - 1)
UrlSearch(u) == IF FirstIndex(u, "?") = 0 THEN <<>> ELSE Drop(u, FirstIndex(u, "?"))
ParamKey(part) == unescape(IF FirstIndex(part, "=") = 0 THEN part
                           ELSE Take(part, FirstIndex(part, "=") - 1))
ParamValue(part) == unescape(IF FirstIndex(part, "=") = 0 THEN <<>>
                             ELSE Drop(part, FirstIndex(part, "=")))
\* url.parse(u, true).query[key]; <<>> when the key is absent or empty (both
\* are falsy to the handler).  Requests of the model name a key at most once.
UrlQuery(u, key) ==
    LET parts == Split(UrlSearch(u), "&")
        hits == {i \in 1..Len(parts) : parts[i] # <<>> /\ ParamKey(parts[i]) = key}
    IN  IF hits = {} THEN <<>>
        ELSE ParamValue(parts[CHOOSE i \in hits : \A j \in hits : i <= j])

KeySid == <<"s", "i", "d">>
KeyToken == <<"t", "o", "k", "e", "n">>
PtyPath == <<"/", "p", "t", "y">>
OtherPath == <<"/", "x">>
TerminalPage == <<"/", "t", "e", "r", "m", "i", "n", "a", "l", ".", "h", "t", "m", "l">>
\* `${wsProtocol}://${host}` of the request
WsOrigin == <<"w", "s", ":", "/", "/", "h">>

\* `?sid=${encodeURIComponent(sid)}&token=${encodeURIComponent(token)}`
StartQuery(sid, token) ==
    <<"?">> \o KeySid \o <<"=">> \o encodeURIComponent(sid)
        \o <<"&">> \o KeyToken \o <<"=">> \o encodeURIComponent(token)

\* ------------------------------------------------------------------ paths
\* ALLOWED_ROOT, and the home directory (os.homedir(), HOME).
ALLOWED_ROOT == <<"/", "r">>
HomeDir == <<"/", "h">>

RECURSIVE NormSegments(_, _)
NormSegments(segs, acc) ==
    IF segs = <<>> THEN acc
    ELSE IF Head(segs) = <<>> \/ Head(segs) = <<".">> THEN NormSegments(Tail(segs), acc)
    ELSE IF Head(segs) = <<".", ".">>
         THEN NormSegments(Tail(segs), IF acc = <<>> THEN acc ELSE Take(acc, Len(acc) - 1))
    ELSE NormSegments(Tail(segs), Append(acc, Head(segs)))
RECURSIVE JoinSegments(_)
JoinSegments(segs) ==
    IF segs = <<>> THEN <<>> ELSE <<"/">> \o Head(segs) \o JoinSegments(Tail(segs))
NormPath(p) ==
    LET segs == NormSegments(Split(p, "/"), <<>>)
    IN  IF segs = <<>> THEN <<"/">> ELSE JoinSegments(segs)
\* path.resolve(root, userPath) for an absolute root
pathResolve(root, userPath) ==
    IF userPath # <<>> /\ Head(userPath) = "/" THEN NormPath(userPath)
    ELSE NormPath(root \o <<"/">> \o userPath)
startsWith(s, prefix) == Len(s) >= Len(prefix) /\ Take(s, Len(prefix)) = prefix

\* safeJoin: [ok |-> FALSE] stands for the throw.
safeJoin(root, userPath) ==
    LET resolved == pathResolve(root, userPath)
    IN  IF ~startsWith(resolved, pathResolve(root, <<>>))
        THEN [ok |-> FALSE, path |-> <<>>]
        ELSE [ok |-> TRUE, path |-> resolved]

getCwd(requestedCwd) ==
    IF requestedCwd = <<>> THEN HomeDir
    ELSE IF safeJoin(ALLOWED_ROOT, requestedCwd).ok
         THEN safeJoin(ALLOWED_ROOT, requestedCwd).path
    ELSE HomeDir


\* ---------------------------------------------------------------- state
VARIABLES
    \* the token codec exercised on its own
    tnow,       \* Date.now()
    tsid,       \* the session id the token was created for
    texp,       \* the expiry createToken computed
    ttok,       \* the token string, as it is presented
    ttamper,    \* 0: as issued; k > 0: altered by Tamper(k, _) on the way
    vsid,       \* the session id of the last verifyToken call
    vnow,       \* Date.now() at the last verifyToken call
    vres,       \* its outcome: "none" | "true" | "false" | "throw"
    \* the server
    alive,      \* the server process runs (FALSE after an uncaught exception)
    now,        \* Date.now()
    sessions,   \* the sessions Map: sid -> index of its session object, 0: no entry
    objs,       \* every session object createSession has built, in order
    conns,      \* the connections (sockets) of the model
    held,       \* the token a client holds: the one of the latest start response
    last,       \* the request being handled, and its answer
    \* the context relay
    contextStore,           \* the contextStore Map: embed id -> record, or NoRecord
    contextRequestTimes,    \* the contextRequestTimes Map: embed id -> time, or -1
    \* the start of the process
    boot,       \* its environment, how far the start has come, SIGN_SECRET
    \* the app
    bus,        \* the EventBus: the subscriptions of one channel:event key
    registry    \* the ModuleRegistry: the modules Map entry of one module id

tvars == <<tnow, tsid, texp, ttok, ttamper, vsid, vnow, vres>>
svars == <<alive, now, sessions, objs, conns, held, last>>
cvars == <<contextStore, contextRequestTimes>>
avars == <<bus, registry>>
bvars == <<boot>>
vars == <<tvars, svars, cvars, bvars, avars>>

\* ------------------------------------------------------------- session ids
\* Session ids: what a client sends as sid, or what generateSid() returned.
Sids == {<<"a">>, <<"b", "&">>}
\* For the codec alone, also an id that contains the payload's separator.
TokenSids == Sids \cup {<<"a", "|", "1">>}

\* ----------------------------------------------------- tokens on the wire
\* What a bearer can make of a token without the secret.
ExpField(token) == Split(token, ".")[1]
SigField(token) == Split(token, ".")[2]
Tampers == 1..12
Tamper(k, token) ==
    LET e == ExpField(token)
        g == SigField(token)
    IN  CASE k = 1 -> e \o <<".">> \o Take(g, Len(g) - 1)          \* odd length
          [] k = 2 -> e \o <<".">> \o Take(g, Len(g) - 2)          \* one byte short
          [] k = 3 -> e \o <<".">> \o g \o <<"0">>                 \* odd digit added
          [] k = 4 -> e \o <<".">> \o g \o <<"g">>                 \* non-hex added
          [] k = 5 -> e \o <<".">> \o <<"z", "z">>                 \* not hex at all
          [] k = 6 -> e \o <<".">> \o <<(IF g[1] = "0" THEN "1" ELSE "0")>> \o Tail(g)
          [] k = 7 -> e \o <<"x">> \o <<".">> \o g                 \* text after the number
          [] k = 8 -> <<"a", "b", "c">> \o <<".">> \o g            \* no number
          [] k = 9 -> NumToStr(parseInt(e).val + 1) \o <<".">> \o g \* later expiry
          [] k = 10 -> token \o <<".", "x">>                       \* three fields
          [] k = 11 -> e                                           \* one field
          [] k = 12 -> <<>>                                        \* empty

\* The codec's variables before any token is created.
TokIdle ==
    /\ tnow = 0
    /\ tsid = <<>>
    /\ texp = 0
    /\ ttok = <<>>
    /\ ttamper = 0
    /\ vsid = <<>>
    /\ vnow = 0
    /\ vres = "none"


\* ------------------------------------------------------ the server's state
Conns == 1..MaxConn
NoSid == <<>>

\* Directories a start request may ask for: none, one beneath the root, the
\* root itself, an absolute path beneath the root, the home directory reached
\* through "..", and a sibling of the root whose name begins with the root's.
Cwds == { <<>>, <<"a">>, <<".">>, <<"/", "r", "/", "a">>,
          <<".", ".", "/", "h">>, <<".", ".", "/", "r", "x">> }
PathOpts == { [cwd |-> p, name |-> ""] : p \in Cwds }

\* What a start request may carry as cwd and name.
StartOpts == { [cwd |-> <<>>, name |-> ""],
               [cwd |-> <<"a">>, name |-> "dev"] }

\* A socket nobody has connected yet.  auth: the sid verifyToken accepted in
\* the upgrade of the connection; seen: the session object the store held
\* for that sid when the token was verified; obj: the session object the
\* connection's handlers hold; frames: what has reached the peer; broken:
\* the socket still reads OPEN, but what is sent on it fails (the failure is
\* reported through the socket's 'error' event; send() itself returns).
NewConn == [st |-> "new", auth |-> <<>>, seen |-> 0, obj |-> 0, frames |-> <<>>,
            broken |-> FALSE]

\* A viewport of a context push: null (absent, or no object), or an object
\* with the fields x, y, width, height, each a finite number ("1"), missing
\* ("") or something that is no number ("w").
NullViewport == [null |-> TRUE, x |-> "", y |-> "", width |-> "", height |-> ""]
FullViewport == [null |-> FALSE, x |-> "1", y |-> "1", width |-> "1", height |-> "1"]
Viewports == {NullViewport, FullViewport,
              [FullViewport EXCEPT !.x = "w"],
              [FullViewport EXCEPT !.width = ""]}

\* The value of the context Map for a key it does not hold (undefined).
NoRecord == [docs |-> -1, viewport |-> NullViewport, updatedAt |-> -1]

\* Text that is no JSON.
NoMessage == [json |-> FALSE, type |-> "", ok |-> FALSE]

\* No request or message is being handled.
NoLast == [op |-> "none", out |-> "", sid |-> <<>>, path |-> <<>>,
           tokGiven |-> FALSE, verdict |-> "none", token |-> <<>>,
           url |-> <<>>, wsUrl |-> <<>>, body |-> NoRecord,
           embed |-> "", embedIds |-> {}, conn |-> 0, msg |-> NoMessage,
           reqSid |-> <<>>, cwd |-> <<>>, origin |-> Undefined, headers |-> {}]

\* The client holds no token.
NoHeld == [sid |-> NoSid, at |-> 0]

Frame(type, msg, o, n) == [type |-> type, msg |-> msg, obj |-> o, n |-> n]
ConnectedFrame == Frame("connected", "", 0, 0)
NotFoundFrame == Frame("error", "Session not found", 0, 0)
ExitFrame == Frame("error", "Terminal exited", 0, 0)
DataFrame(o, n) == Frame("data", "", o, n)

\* Embed ids of the context relay: an id as the board gives it, and an id
\* that reads like the last segment of the route GET /api/context/requests.
RequestsWord == "requests"
Embeds == {"e", RequestsWord}

\* NODE_ENV and SIGN_SECRET of the environment, before line 12 has run.
Modes == {"production", "development"}
EnvSecrets == {Undefined, Str(<<>>), Str(<<"x">>)}
Loading(mode, envSecret) ==
    [mode |-> mode, envSecret |-> envSecret, phase |-> "loading",
     secret |-> Undefined]
\* A server outside production with no secret in its environment, listening.
Booted ==
    [mode |-> "development", envSecret |-> Undefined, phase |-> "listening",
     secret |-> SignSecret("development", Undefined)]

\* ------------------------------------------------------ the app: its state
\* The handlers of the model, each subscribed at most once.
Handlers == {"h", "g"}

\* What a handler does when it is invoked: it returns, it throws, or it emits
\* the event it is subscribed to (unless it is already running) and returns.
Does == {"returns", "throws", "emits"}

\* new EventBus(): no subscription, no handler invoked, no emitAsync awaiting.
\*   subscriptions  the entries of the key's Set, in insertion order
\*   kind           how each handler was subscribed: "none" | "on" | "once"
\*   does           what each handler does when invoked
\*   calls          how often each handler has been invoked
\*   awaiting       the toRemove lists of the emitAsync calls at their await
NewBus ==
    [subscriptions |-> <<>>,
     kind |-> [f \in Handlers |-> "none"],
     does |-> [f \in Handlers |-> "returns"],
     calls |-> [f \in Handlers |-> 0],
     awaiting |-> <<>>]

\* No call of the registry yet.
NoCall ==
    [op |-> "none", before |-> "none", invoked |-> FALSE, threw |-> FALSE,
     emitted |-> "none", registered |-> FALSE, state |-> "none"]

\* new ModuleRegistry(bus, sdk): an empty modules Map.
\*   modules  the Map's entry for the module id: an index of entries, 0: none
\*   entries  every ModuleEntry built for the id, in order: its info.state
\*   pending  the start and stop calls at their await: [op, entry]
\*   call     the latest call of the registry, or the latest resumption
NewRegistry ==
    [modules |-> 0, entries |-> <<>>, pending |-> <<>>, call |-> NoCall]

AppLoaded ==
    /\ bus = NewBus
    /\ registry = NewRegistry

\* The module's state once it is loaded.
SrvLoaded ==
    /\ now = 0
    /\ sessions = [s \in Sids |-> 0]
    /\ objs = <<>>
    /\ conns = [c \in Conns |-> NewConn]
    /\ held = NoHeld
    /\ last = NoLast
    /\ contextStore = [e \in Embeds |-> NoRecord]
    /\ contextRequestTimes = [e \in Embeds |-> -1]
SrvIdle ==
    /\ alive = TRUE
    /\ boot = Booted
    /\ SrvLoaded
    /\ AppLoaded

\* A loop over the clients that finds none of them open.
OpenClientsNone(o) == {}

\* The clients of session object o that are OPEN (readyState === 1).
OpenClients(o) == {c \in Conns : Member(objs[o].clients, c) /\ conns[c].st = "open"}

\* A splice that empties the list.
RemoveEveryone(seq, c) == <<>>

\* index = clients.indexOf(ws); if (index > -1) clients.splice(index, 1)
RemoveFirst(seq, c) ==
    IF ~Member(seq, c) THEN seq
    ELSE Take(seq, FirstIndex(seq, c) - 1) \o Drop(seq, FirstIndex(seq, c))

\* ------------------------------------------- the strings of the requests
\* createToken(s) at Date.now() = t, for every id and time of the model.
TokenAt == [s \in Sids |-> [t \in 0..MaxTime |-> createToken(s, t)]]

\* What a client presents as token: 0 the token it holds, as it is; 1, 6, 7
\* what Tamper makes of it (a digit of the signature cut off, a wrong
\* signature, text after the expiry); 12 no token.  A client that holds none
\* presents a string that is no token.
TokenKinds == {0, 1, 6, 7, 12}
Presented(k, hs, ha) ==
    IF k = 12 THEN <<>>
    ELSE IF hs = NoSid THEN <<"x">>
    ELSE IF k = 0 THEN TokenAt[hs][ha]
    ELSE Tamper(k, TokenAt[hs][ha])
TokenChoices == IF held = NoHeld THEN {0, 12} ELSE TokenKinds

\* The URL a client requests the upgrade with; <<>> leaves a parameter out.
ClientUrl(path, sid, token) ==
    LET ps == (IF sid = <<>> THEN <<>>
               ELSE << KeySid \o <<"=">> \o encodeURIComponent(sid) >>)
              \o (IF token = <<>> THEN <<>>
                  ELSE << KeyToken \o <<"=">> \o encodeURIComponent(token) >>)
    IN  path \o (IF ps = <<>> THEN <<>>
                 ELSE <<"?">> \o ps[1]
                      \o (IF Len(ps) = 2 THEN <<"&">> \o ps[2] ELSE <<>>))

\* ------------------------------------------------------------- HTTP API
\* createSession(sid, cwd, name): the session object it builds.
NewSession(sid, cwd, name) ==
    [sid |-> sid, pty |-> "running", clients |-> <<>>, lastSeen |-> now,
     name |-> IF name = "" THEN "terminal" ELSE name,
     cwd |-> getCwd(cwd), emitted |-> 0, forwarded |-> 0]

\* A start request that is given a fresh id whatever it names.
StartSidsFresh(reqSid) == {g \in Sids : sessions[g] = 0}

\* The sid a start request resolves to: the one it names, or generateSid(),
\* an id no entry has.
StartSids(reqSid) ==
    IF reqSid # NoSid THEN {reqSid} ELSE {g \in Sids : sessions[g] = 0}

\* res.json({sid, url, wsUrl}) with the token createToken(sid) returned
StartResponse(sid, token) ==
    [NoLast EXCEPT !.op = "start", !.out = "200", !.sid = sid, !.token = token,
                   !.url = TerminalPage \o StartQuery(sid, token),
                   !.wsUrl = WsOrigin \o PtyPath \o StartQuery(sid, token)]
StartResponseAt ==
    [s \in Sids |-> [t \in 0..MaxTime |-> StartResponse(s, TokenAt[s][t])]]

\* const { cwd, name } = req.body; let { sid } = req.body: what the request
\* carried, kept beside its answer.
StartLabel(answer, reqSid, opt) ==
    [answer EXCEPT !.reqSid = reqSid, !.cwd = opt.cwd]

\* A start request that finds no session, whatever the store holds.
ExistingNever(reqSid) == 0

\* session = sid ? sessions.get(sid) : null; 0 stands for no session.
Existing(reqSid) == IF reqSid # NoSid THEN sessions[reqSid] ELSE 0

\* An error answer that carries a token all the same.
SpawnFailureWithToken ==
    [NoLast EXCEPT !.op = "start", !.out = "500", !.token = <<"x">>]

\* pty.spawn throws in createSession: the handler is left before
\* sessions.set, createToken and res.json, and Express answers 500.
SpawnFailure == [NoLast EXCEPT !.op = "start", !.out = "500"]

\* POST /api/pty/start {sid, cwd, name}; spawnOk: pty.spawn does not throw;
\* mine: the request is the model's client's, who keeps the token of the
\* answer (the answer to somebody else's request leaves it the one it has).
StartFor(reqSid, opt, spawnOk, mine) ==
    /\ alive
    /\ last = NoLast
    /\ \E sid \in StartSids(reqSid) :
        LET o == Existing(reqSid)
        IN  IF o = 0
            THEN IF spawnOk
                 THEN /\ Len(objs) < MaxObj
                      /\ objs' = Append(objs, NewSession(sid, opt.cwd, opt.name))
                      /\ sessions' = [sessions EXCEPT ![sid] = Len(objs) + 1]
                      /\ held' = IF mine THEN [sid |-> sid, at |-> now] ELSE held
                      /\ last' = StartLabel(StartResponseAt[sid][now], reqSid, opt)
                 ELSE /\ last' = StartLabel(SpawnFailure, reqSid, opt)
                      /\ UNCHANGED <<sessions, objs, held>>
            ELSE /\ objs' = [objs EXCEPT ![o].lastSeen = now]
                 /\ held' = IF mine THEN [sid |-> sid, at |-> now] ELSE held
                 /\ last' = StartLabel(StartResponseAt[sid][now], reqSid, opt)
                 /\ UNCHANGED sessions
    /\ UNCHANGED <<alive, now, conns>>
    /\ UNCHANGED <<tvars, cvars, bvars, avars>>
Start(reqSid, opt, spawnOk) == StartFor(reqSid, opt, spawnOk, TRUE)

\* A close request answered with success although no session was found.
NotFoundStatusOk == "200"

\* res.status(404).json({error: 'Session not found'})
NotFoundStatus == "404"

\* DELETE /api/pty/close?sid=
Close(reqSid) ==
    /\ alive
    /\ last = NoLast
    /\ IF reqSid = NoSid
       THEN /\ last' = [NoLast EXCEPT !.op = "close", !.out = "400"]
            /\ UNCHANGED <<sessions, objs, conns>>
       ELSE IF sessions[reqSid] = 0
       THEN /\ last' = [NoLast EXCEPT !.op = "close", !.out = NotFoundStatus,
                                      !.sid = reqSid]
            /\ UNCHANGED <<sessions, objs, conns>>
       ELSE LET o == sessions[reqSid]
            IN  /\ conns' = [c \in Conns |->
                       IF c \in OpenClients(o) THEN [conns[c] EXCEPT !.st = "closing"]
                       ELSE conns[c]]
                /\ objs' = [objs EXCEPT ![o].pty = "killed"]
                /\ sessions' = [sessions EXCEPT ![reqSid] = 0]
                /\ last' = [NoLast EXCEPT !.op = "close", !.out = "200", !.sid = reqSid]
    /\ UNCHANGED <<alive, now, held>>
    /\ UNCHANGED <<tvars, cvars, bvars, avars>>

\* ------------------------------------------------------------------ CORS
\* String.prototype.includes
includes(s, sub) ==
    \E i \in 0..(Len(s) - Len(sub)) : SubSeq(s, i + 1, i + Len(sub)) = sub

MiroHost == <<"m", "i", "r", "o", ".", "c", "o", "m">>
LocalHost == <<"l", "o", "c", "a", "l", "h", "o", "s", "t">>
LoopbackHost == <<"1", "2", "7", ".", "0", ".", "0", ".", "1">>

\* The Origin header of a request: absent, or one of these.
Origins ==
    {Undefined,
     Str(<<"h", "t", "t", "p", "s", ":", "/", "/", "m", "i", "r", "o", ".", "c", "o", "m">>),
     Str(<<"h", "t", "t", "p", ":", "/", "/", "l", "o", "c", "a", "l", "h", "o", "s", "t", ":", "3", "0", "0", "0">>),
     Str(<<"h", "t", "t", "p", ":", "/", "/", "1", "2", "7", ".", "0", ".", "0", ".", "1">>),
     Str(<<"h", "t", "t", "p", "s", ":", "/", "/", "e", "v", "i", "l", ".", "e", "x", "a", "m", "p", "l", "e">>)}

Header(name, value) == [name |-> name, value |-> value]

\* The CORS middleware of app.use: the headers it sets on the response.
CorsHeaders(origin) ==
    (IF Truthy(origin) /\ (\/ includes(origin.value, MiroHost)
                           \/ includes(origin.value, LocalHost)
                           \/ includes(origin.value, LoopbackHost))
     THEN {Header("Access-Control-Allow-Origin", origin.value)}
     ELSE {})
    \cup {Header("Access-Control-Allow-Methods", <<"GET, POST, DELETE, OPTIONS">>),
          Header("Access-Control-Allow-Headers", <<"Content-Type">>)}

\* An OPTIONS request: the middleware answers it itself, res.sendStatus(200).
Preflight(origin) ==
    /\ alive
    /\ last = NoLast
    /\ last' = [NoLast EXCEPT !.op = "options", !.out = "200", !.origin = origin,
                              !.headers = CorsHeaders(origin)]
    /\ UNCHANGED <<alive, now, sessions, objs, conns, held>>
    /\ UNCHANGED <<tvars, cvars, bvars, avars>>

\* GET /health, after the middleware has called next().
Health(origin) ==
    /\ alive
    /\ last = NoLast
    /\ last' = [NoLast EXCEPT !.op = "health", !.out = "200", !.origin = origin,
                              !.headers = CorsHeaders(origin)]
    /\ UNCHANGED <<alive, now, sessions, objs, conns, held>>
    /\ UNCHANGED <<tvars, cvars, bvars, avars>>

\* ------------------------------------------------------ timers and the pty
\* A sweep that finds no session idle.
IdleNever(o) == FALSE

\* A sweep that takes a session at the very end of its timeout.
IdleAtTimeout(o) == now - objs[o].lastSeen >= SESSION_TIMEOUT

\* now - session.lastSeen > SESSION_TIMEOUT
Idle(o) == now - objs[o].lastSeen > SESSION_TIMEOUT

\* cleanupIdleSessions()
Sweep ==
    /\ alive
    /\ last = NoLast
    /\ LET reaped == {s \in Sids : sessions[s] # 0 /\ Idle(sessions[s])}
       IN  /\ objs' = [o \in 1..Len(objs) |->
                  IF \E s \in reaped : sessions[s] = o
                  THEN [objs[o] EXCEPT !.pty = "killed"] ELSE objs[o]]
           /\ sessions' = [s \in Sids |-> IF s \in reaped THEN 0 ELSE sessions[s]]
           /\ last' = [NoLast EXCEPT !.op = "sweep"]
    /\ UNCHANGED <<alive, now, conns, held>>
    /\ UNCHANGED <<tvars, cvars, bvars, avars>>

\* Time passes.
Tick ==
    /\ alive
    /\ last = NoLast
    /\ now < MaxTime
    /\ now' = now + 1
    /\ UNCHANGED <<alive, sessions, objs, conns, held, last>>
    /\ UNCHANGED <<tvars, cvars, bvars, avars>>

\* A loop that a failed send ends.
AfterFailedSendStop(rest) == <<>>

\* session.clients.forEach after a send that failed: client.send() has
\* returned, the loop goes on with the clients that follow.
AfterFailedSend(rest) == rest

\* session.clients.forEach(client => { if (client.readyState === 1)
\* client.send(message) }): the connections the message reaches.
RECURSIVE Fanout(_)
Fanout(clients) ==
    IF clients = <<>> THEN {}
    ELSE IF conns[Head(clients)].st # "open" THEN Fanout(Tail(clients))
    ELSE IF conns[Head(clients)].broken THEN Fanout(AfterFailedSend(Tail(clients)))
    ELSE {Head(clients)} \cup Fanout(Tail(clients))

\* The peer of connection c has gone, or the network has: from now on what
\* is sent on c fails, until its 'close' event comes.
SocketBreaks(c) ==
    /\ alive
    /\ last = NoLast
    /\ conns[c].st = "open"
    /\ ~conns[c].broken
    /\ conns' = [conns EXCEPT ![c].broken = TRUE]
    /\ UNCHANGED <<alive, now, sessions, objs, held, last>>
    /\ UNCHANGED <<tvars, cvars, bvars, avars>>

\* A message that has lost the chunk.
ChunkMessageEmpty(o) == DataFrame(o, 0)

\* message = JSON.stringify({type: 'data', data}); chunks are numbered in
\* the order the process emits them.
ChunkMessage(o) == DataFrame(o, objs[o].emitted + 1)

\* ptyProcess.onData: one chunk of output of the process of object o.
PtyData(o) ==
    /\ alive
    /\ last = NoLast
    /\ o \in 1..Len(objs)
    /\ objs[o].pty # "exited"
    /\ objs[o].emitted < MaxChunks
    /\ objs' = [objs EXCEPT ![o].lastSeen = now, ![o].emitted = @ + 1]
    /\ conns' = [c \in Conns |->
           IF c \in Fanout(objs[o].clients)
           THEN [conns[c] EXCEPT !.frames = Append(@, ChunkMessage(o))]
           ELSE conns[c]]
    /\ UNCHANGED <<alive, now, sessions, held, last>>
    /\ UNCHANGED <<tvars, cvars, bvars, avars>>

\* An exit message that is no error.
ExitMessageData == DataFrame(0, 0)

\* message = JSON.stringify({type: 'error', message: 'Terminal exited ...'})
ExitMessage == ExitFrame

\* ptyProcess.onExit: the process of object o has exited, by itself or killed.
PtyExit(o) ==
    /\ alive
    /\ last = NoLast
    /\ o \in 1..Len(objs)
    /\ objs[o].pty # "exited"
    /\ conns' = [c \in Conns |->
           IF c \in Fanout(objs[o].clients)
           THEN [conns[c] EXCEPT !.frames = Append(@, ExitMessage), !.st = "closing"]
           ELSE IF c \in OpenClients(o)
           THEN [conns[c] EXCEPT !.st = "closing"]
           ELSE conns[c]]
    /\ sessions' = [sessions EXCEPT ![objs[o].sid] = 0]
    /\ objs' = [objs EXCEPT ![o].pty = "exited"]
    /\ UNCHANGED <<alive, now, held, last>>
    /\ UNCHANGED <<tvars, cvars, bvars, avars>>

\* ----------------------------------------------------- the context relay
\* Number.isFinite(v)
NumberIsFinite(v) == v = "1"

\* A test of the viewport that looks at x alone.
ViewportDataXOnly(viewport) ==
    IF ~viewport.null /\ NumberIsFinite(viewport.x) THEN viewport ELSE NullViewport

\* viewportData = viewport && typeof viewport === 'object'
\*     && Number.isFinite(viewport.x) && Number.isFinite(viewport.y)
\*     && Number.isFinite(viewport.width) && Number.isFinite(viewport.height)
\*     ? {x, y, width, height} : null
ViewportData(viewport) ==
    IF /\ ~viewport.null
       /\ NumberIsFinite(viewport.x) /\ NumberIsFinite(viewport.y)
       /\ NumberIsFinite(viewport.width) /\ NumberIsFinite(viewport.height)
    THEN viewport ELSE NullViewport

\* Array.isArray(docs); docs < 0 stands for a value that is no array,
\* docs >= 0 for an array of that many documents.
DocsIsArray(docs) == docs >= 0

\* POST /api/context/:embedId {docs, viewport}
ContextPush(e, docs, viewport) ==
    /\ alive
    /\ last = NoLast
    /\ IF ~DocsIsArray(docs)
       THEN /\ last' = [NoLast EXCEPT !.op = "push", !.out = "400", !.embed = e,
                                      !.body = [docs |-> docs, viewport |-> viewport,
                                                updatedAt |-> -1]]
            /\ UNCHANGED contextStore
       ELSE /\ last' = [NoLast EXCEPT !.op = "push", !.out = "200", !.embed = e,
                                      !.body = [docs |-> docs, viewport |-> viewport,
                                                updatedAt |-> -1]]
            /\ contextStore' = [contextStore EXCEPT ![e] =
                   [docs |-> docs, viewport |-> ViewportData(viewport),
                    updatedAt |-> now]]
    /\ UNCHANGED <<alive, now, sessions, objs, conns, held, contextRequestTimes>>
    /\ UNCHANGED <<tvars, bvars, avars>>

\* A scan that still answers an entry at the end of its window.
PendingInclusive ==
    {e \in Embeds : contextRequestTimes[e] >= 0
                       /\ now - contextRequestTimes[e] <= CONTEXT_REQUEST_TTL_MS}

\* The scan of GET /api/context/requests: the ids it answers, and the Map
\* it leaves, with the expired entries deleted.
Pending ==
    {e \in Embeds : contextRequestTimes[e] >= 0
                       /\ now - contextRequestTimes[e] < CONTEXT_REQUEST_TTL_MS}
Purged ==
    [e \in Embeds |-> IF e \in Pending THEN contextRequestTimes[e] ELSE -1]

\* Express takes the first route that matches: GET /api/context/requests is
\* registered before GET /api/context/:embedId.
RoutedToRequests(e) == e = RequestsWord

\* {docs: [], viewport: null, updatedAt: null}; -1 stands for null.
EmptyContext == [docs |-> 0, viewport |-> NullViewport, updatedAt |-> -1]

\* GET /api/context/<e>, the request of a pull for embed id e.  The body of
\* an answer that has no docs, viewport and updatedAt is NoRecord.
ContextPull(e) ==
    /\ alive
    /\ last = NoLast
    /\ IF RoutedToRequests(e)
       THEN /\ last' = [NoLast EXCEPT !.op = "pull", !.out = "200", !.embed = e,
                                      !.embedIds = Pending]
            /\ contextRequestTimes' = Purged
       ELSE /\ last' = [NoLast EXCEPT !.op = "pull", !.out = "200", !.embed = e,
                                      !.body = IF contextStore[e] = NoRecord
                                               THEN EmptyContext ELSE contextStore[e]]
            /\ UNCHANGED contextRequestTimes
    /\ UNCHANGED <<alive, now, sessions, objs, conns, held, contextStore>>
    /\ UNCHANGED <<tvars, bvars, avars>>

\* POST /api/context/:embedId/request
ContextAsk(e) ==
    /\ alive
    /\ last = NoLast
    /\ contextRequestTimes' = [contextRequestTimes EXCEPT ![e] = now]
    /\ last' = [NoLast EXCEPT !.op = "ask", !.out = "200", !.embed = e]
    /\ UNCHANGED <<alive, now, sessions, objs, conns, held, contextStore>>
    /\ UNCHANGED <<tvars, bvars, avars>>

\* GET /api/context/requests: answers the pending ids, deletes the expired.
ContextPoll ==
    /\ alive
    /\ last = NoLast
    /\ contextRequestTimes' = Purged
    /\ last' = [NoLast EXCEPT !.op = "poll", !.out = "200", !.embedIds = Pending]
    /\ UNCHANGED <<alive, now, sessions, objs, conns, held, contextStore>>
    /\ UNCHANGED <<tvars, bvars, avars>>

\* ---------------------------------------------------- WebSocket gateway
\* Connections are taken in order.
NextConn(c) == conns[c].st = "new" /\ \A d \in Conns : d < c => conns[d].st # "new"

\* The server takes new connections: server.close() has not been called.  A
\* WebSocket client comes on a connection of its own; an HTTP request may
\* come on a connection that was there before.
Accepting == boot.phase = "listening"

\* What the upgrade handler reads from the request: url.parse(request.url, true).
ParsedRequest(reqPath, reqSid, reqToken) ==
    LET u == ClientUrl(reqPath, reqSid, reqToken)
    IN  [pathname |-> UrlPathname(u), sid |-> UrlQuery(u, KeySid),
         token |-> UrlQuery(u, KeyToken)]

\* A gate that refuses nobody.
RefusedNever(verdict) == FALSE

\* if (!verifyToken(sid, token))
Refused(verdict) == verdict = "false"

\* server.on('upgrade') up to its decision, at Date.now() = n: what it reads,
\* what it answers, and the sid verifyToken accepted.  An exception of
\* verifyToken is caught nowhere.
Gate(reqPath, reqSid, reqToken, n) ==
    LET q == ParsedRequest(reqPath, reqSid, reqToken)
        v == IF q.pathname # PtyPath \/ q.sid = <<>> \/ q.token = <<>> THEN "none"
             ELSE verifyToken(q.sid, q.token, n)
    IN  [sid |-> q.sid,
         out |-> IF q.pathname # PtyPath THEN "destroyed"
                 ELSE IF q.sid = <<>> \/ q.token = <<>> THEN "401"
                 ELSE IF v = "throw" THEN "crashed"
                 ELSE IF Refused(v) THEN "403"
                 ELSE "upgraded",
         auth |-> IF v = "true" THEN q.sid ELSE <<>>,
         tokGiven |-> reqToken # <<>>,
         verdict |-> IF reqSid = <<>> \/ reqToken = <<>> THEN "none"
                     ELSE verifyToken(reqSid, reqToken, n)]
GateAt ==
    [p \in {PtyPath, OtherPath} |-> [rs \in Sids \cup {NoSid} |-> [k \in TokenKinds |->
        [hs \in Sids \cup {NoSid} |-> [ha \in 0..MaxTime |-> [n \in 0..MaxTime |->
            Gate(p, rs, Presented(k, hs, ha), n)]]]]]]

\* An uncaught exception ends the server process: its memory, its sockets and
\* the processes on its ptys go with it.
Crashed ==
    /\ alive' = FALSE
    /\ sessions' = [s \in Sids |-> 0]
    /\ objs' = [o \in 1..Len(objs) |-> [objs[o] EXCEPT !.pty = "exited", !.clients = <<>>]]
    /\ conns' = [c \in Conns |->
           IF conns[c].st \in {"upgrading", "open", "closing"}
           THEN [conns[c] EXCEPT !.st = "closed"] ELSE conns[c]]

\* A handler that leaves the socket open after the error frame.
AfterNotFoundOpen == "open"

\* ws.close() right after the 'Session not found' frame.
AfterNotFound == "closing"

\* An attach that acknowledges with a frame of process output.
AttachFrameData == DataFrame(0, 0)

\* ws.send(JSON.stringify({type: 'connected'})), the first send to a client.
AttachFrame == ConnectedFrame

\* wss.on('connection'): ws is connection c, upgraded for sid.
Connection(c, sid, auth) ==
    LET seen == IF conns[c].st = "upgrading" THEN conns[c].seen ELSE sessions[sid]
    IN
    IF sessions[sid] = 0
    THEN /\ conns' = [conns EXCEPT ![c] = [st |-> AfterNotFound, auth |-> auth,
                                           seen |-> seen, obj |-> 0,
                                           frames |-> <<NotFoundFrame>>, broken |-> FALSE]]
         /\ UNCHANGED objs
    ELSE /\ conns' = [conns EXCEPT ![c] = [st |-> "open", auth |-> auth,
                                           seen |-> seen, obj |-> sessions[sid],
                                           frames |-> <<AttachFrame>>, broken |-> FALSE]]
         /\ objs' = [objs EXCEPT ![sessions[sid]].clients = Append(@, c),
                                 ![sessions[sid]].lastSeen = now]

\* server.on('upgrade') for connection c, with wss.handleUpgrade calling the
\* connection handler in the same turn.
Upgrade(c, reqPath, reqSid, k) ==
    /\ alive
    /\ last = NoLast
    /\ Accepting
    /\ NextConn(c)
    /\ LET g == GateAt[reqPath][reqSid][k][held.sid][held.at][now]
       IN  /\ last' = [NoLast EXCEPT !.op = "upgrade", !.out = g.out, !.path = reqPath,
                                     !.sid = reqSid, !.tokGiven = g.tokGiven,
                                     !.verdict = g.verdict,
                                     !.token = Presented(k, held.sid, held.at)]
           /\ IF g.out = "upgraded"
              THEN Connection(c, g.sid, g.auth) /\ UNCHANGED <<alive, sessions>>
              ELSE IF g.out = "crashed"
              THEN Crashed
              ELSE UNCHANGED <<alive, sessions, objs, conns>>
    /\ UNCHANGED <<now, held>>
    /\ UNCHANGED <<tvars, cvars, bvars, avars>>

\* ws.on('close'): connection c has closed, on the client's side or after
\* the server's close().
WsClose(c) ==
    /\ alive
    /\ last = NoLast
    /\ conns[c].st \in {"open", "closing"}
    /\ conns' = [conns EXCEPT ![c].st = "closed"]
    /\ objs' = IF conns[c].obj = 0 THEN objs
               ELSE [objs EXCEPT ![conns[c].obj].clients = RemoveFirst(@, c)]
    /\ UNCHANGED <<alive, now, sessions, held, last>>
    /\ UNCHANGED <<tvars, cvars, bvars, avars>>

\* server.on('upgrade') when the callback given to wss.handleUpgrade is not
\* run in the same turn: the connection is upgraded for the sid verifyToken
\* accepted, and the connection handler runs later, in OnConnection.
HandleUpgrade(c, reqPath, reqSid, k) ==
    /\ alive
    /\ last = NoLast
    /\ Accepting
    /\ NextConn(c)
    /\ LET g == GateAt[reqPath][reqSid][k][held.sid][held.at][now]
       IN  /\ last' = [NoLast EXCEPT !.op = "upgrade", !.out = g.out, !.path = reqPath,
                                     !.sid = reqSid, !.tokGiven = g.tokGiven,
                                     !.verdict = g.verdict]
           /\ IF g.out = "upgraded"
              THEN /\ conns' = [conns EXCEPT ![c] =
                          [NewConn EXCEPT !.st = "upgrading", !.auth = g.auth,
                                          !.seen = sessions[g.auth]]]
                   /\ UNCHANGED <<alive, sessions, objs>>
              ELSE IF g.out = "crashed"
              THEN Crashed
              ELSE UNCHANGED <<alive, sessions, objs, conns>>
    /\ UNCHANGED <<now, held>>
    /\ UNCHANGED <<tvars, cvars, bvars, avars>>

\* wss.emit('connection', ws, request, sid) for a connection upgraded earlier.
OnConnection(c) ==
    /\ alive
    /\ last = NoLast
    /\ conns[c].st = "upgrading"
    /\ Connection(c, conns[c].auth, conns[c].auth)
    /\ UNCHANGED <<alive, now, sessions, held, last>>
    /\ UNCHANGED <<tvars, cvars, bvars, avars>>

\* What a client sends: text that is no JSON, or a JSON message with a type
\* and a payload that is of the type the handler asks for (ok) or not.
Messages ==
    { NoMessage,
      [json |-> TRUE, type |-> "input", ok |-> TRUE],
      [json |-> TRUE, type |-> "input", ok |-> FALSE],
      [json |-> TRUE, type |-> "resize", ok |-> TRUE],
      [json |-> TRUE, type |-> "resize", ok |-> FALSE],
      [json |-> TRUE, type |-> "ping", ok |-> FALSE] }

\* A handler that passes on whatever parses.
ForwardsAnyJson(msg) == msg.json

\* The handler calls session.pty.write or session.pty.resize for the message.
Forwards(msg) == msg.json /\ msg.type \in {"input", "resize"} /\ msg.ok

\* ws.on('message') of connection c: registered once the connection has
\* joined a session object, and called for every message that arrives until
\* the socket has closed.
WsMessage(c, msg) ==
    /\ alive
    /\ last = NoLast
    /\ conns[c].st \in {"open", "closing"}
    /\ conns[c].obj # 0
    /\ LET o == conns[c].obj
           reaches == Forwards(msg) /\ objs[o].pty # "exited"
       IN  /\ reaches => objs[o].forwarded < MaxForward
           /\ objs' = IF ~msg.json THEN objs
                      ELSE [objs EXCEPT ![o].lastSeen = now,
                                        ![o].forwarded = IF reaches THEN @ + 1 ELSE @]
    /\ last' = [NoLast EXCEPT !.op = "message", !.conn = c, !.msg = msg]
    /\ UNCHANGED <<alive, now, sessions, conns, held>>
    /\ UNCHANGED <<tvars, cvars, bvars, avars>>

\* The handler returns: its answer is out, the server waits for the next event.
TurnEnds ==
    /\ last # NoLast
    /\ last' = NoLast
    /\ UNCHANGED <<alive, now, sessions, objs, conns, held>>
    /\ UNCHANGED <<tvars, cvars, bvars, avars>>

Init == TokIdle /\ SrvIdle

Next ==
    \/ \E s \in Sids \cup {NoSid}, opt \in StartOpts, ok \in BOOLEAN : Start(s, opt, ok)
    \/ \E s \in Sids \cup {NoSid} : Close(s)
    \/ Sweep
    \/ Tick
    \/ \E o \in 1..MaxObj : PtyData(o)
    \/ \E o \in 1..MaxObj : PtyExit(o)
    \/ \E e \in Embeds, d \in -1..1, v \in Viewports : ContextPush(e, d, v)
    \/ \E e \in Embeds : ContextPull(e)
    \/ \E e \in Embeds : ContextAsk(e)
    \/ ContextPoll
    \/ \E c \in Conns, path \in {PtyPath, OtherPath}, s \in Sids \cup {NoSid},
          k \in TokenChoices : Upgrade(c, path, s, k)
    \/ \E c \in Conns, m \in Messages : WsMessage(c, m)
    \/ \E c \in Conns : WsClose(c)
    \/ TurnEnds

Spec == Init /\ [][Next]_vars

\* ------------------------------------------------- the server, by concern
\* The gate: sessions are started and closed, time passes, and clients ask
\* for upgrades with every path, sid and token they can present.
GateNext ==
    \/ \E s \in Sids \cup {NoSid}, opt \in StartOpts, ok \in BOOLEAN : Start(s, opt, ok)
    \/ \E s \in Sids \cup {NoSid} : Close(s)
    \/ Tick
    \/ \E c \in Conns, path \in {PtyPath, OtherPath}, s \in Sids \cup {NoSid},
          k \in TokenChoices : Upgrade(c, path, s, k)
    \/ \E c \in Conns : WsClose(c)
    \/ TurnEnds

SpecGate == Init /\ [][GateNext]_vars

\* Sharing a session: clients that present the token they hold attach, the
\* processes write, and sessions are started again under the same id.
ShareNext ==
    \/ \E s \in Sids \cup {NoSid}, opt \in StartOpts, ok \in BOOLEAN : Start(s, opt, ok)
    \/ Tick
    \/ \E o \in 1..MaxObj : PtyData(o)
    \/ \E c \in Conns, s \in Sids : Upgrade(c, PtyPath, s, 0)
    \/ \E c \in Conns : WsClose(c)
    \/ TurnEnds

SpecShare == Init /\ [][ShareNext]_vars

\* The control API next to the context relay.
CtxNext ==
    \/ \E s \in Sids \cup {NoSid}, opt \in StartOpts, ok \in BOOLEAN : Start(s, opt, ok)
    \/ \E s \in Sids \cup {NoSid} : Close(s)
    \/ Tick
    \/ \E d \in {-1, 1} : ContextPush("e", d, FullViewport)
    \/ ContextAsk("e")
    \/ ContextPoll
    \/ \E c \in Conns, s \in Sids : Upgrade(c, PtyPath, s, 0)
    \/ TurnEnds

SpecCtx == Init /\ [][CtxNext]_vars

\* A start request that names neither cwd nor name.
PlainStart == [cwd |-> <<>>, name |-> ""]

\* Idle sessions: sessions are started and joined by clients that present
\* the token they hold, time passes, clients write, and the sweep runs.
IdleNext ==
    \/ \E s \in Sids : Start(s, PlainStart, TRUE)
    \/ Sweep
    \/ Tick
    \/ \E c \in Conns, s \in Sids : Upgrade(c, PtyPath, s, 0)
    \/ \E c \in Conns, m \in Messages : WsMessage(c, m)
    \/ \E c \in Conns : WsClose(c)
    \/ TurnEnds

SpecIdle == Init /\ [][IdleNext]_vars

\* The end of a process: sessions are started, joined, closed and started
\* again, their processes write and exit.
ExitNext ==
    \/ \E s \in Sids : Start(s, PlainStart, TRUE)
    \/ \E s \in Sids : Close(s)
    \/ \E o \in 1..MaxObj : PtyData(o)
    \/ \E o \in 1..MaxObj : PtyExit(o)
    \/ \E c \in Conns, s \in Sids : Upgrade(c, PtyPath, s, 0)
    \/ \E c \in Conns : WsClose(c)
    \/ TurnEnds

SpecExit == Init /\ [][ExitNext]_vars

\* Output and exit of a process whose clients' sockets may fail.
FanNext ==
    \/ \E s \in Sids : Start(s, PlainStart, TRUE)
    \/ \E o \in 1..MaxObj : PtyData(o)
    \/ \E o \in 1..MaxObj : PtyExit(o)
    \/ \E c \in Conns, s \in Sids : Upgrade(c, PtyPath, s, 0)
    \/ \E c \in Conns : SocketBreaks(c)
    \/ \E c \in Conns : WsClose(c)
    \/ TurnEnds

SpecFan == Init /\ [][FanNext]_vars

\* Sessions that end while clients come and write: the connection handler
\* runs in a later turn than the upgrade that verified the token, and a
\* session is ended by a close request, by the sweep or by its process.
RaceNext ==
    \/ \E s \in Sids : Start(s, PlainStart, TRUE)
    \/ \E s \in Sids : Close(s)
    \/ Sweep
    \/ Tick
    \/ \E o \in 1..MaxObj : PtyExit(o)
    \/ \E c \in Conns, s \in Sids : HandleUpgrade(c, PtyPath, s, 0)
    \/ \E c \in Conns : OnConnection(c)
    \/ \E c \in Conns, m \in Messages : WsMessage(c, m)
    \/ \E c \in Conns : WsClose(c)
    \/ TurnEnds

SpecRace == Init /\ [][RaceNext]_vars

\* The context relay on its own.
RelayNext ==
    \/ Tick
    \/ \E e \in Embeds, d \in -1..1, v \in Viewports : ContextPush(e, d, v)
    \/ \E e \in Embeds : ContextPull(e)
    \/ \E e \in Embeds : ContextAsk(e)
    \/ ContextPoll
    \/ TurnEnds

SpecRelay == Init /\ [][RelayNext]_vars

\* Requests with and without an Origin header, on a server whose sessions
\* come and go.
CorsNext ==
    \/ \E origin \in Origins : Preflight(origin)
    \/ \E origin \in Origins : Health(origin)
    \/ \E s \in Sids \cup {NoSid} : Start(s, PlainStart, TRUE)
    \/ \E s \in Sids \cup {NoSid} : Close(s)
    \/ Tick
    \/ TurnEnds
SpecCors == Init /\ [][CorsNext]_vars

\* The timers of the server while embeds ask for context: the clock and the
\* one setInterval of the program run on for ever, requests come as they come.
PurgeNext ==
    \/ \E s \in Sids : Start(s, PlainStart, TRUE)
    \/ \E e \in Embeds : ContextAsk(e)
    \/ ContextPoll
    \/ Sweep
    \/ Tick
    \/ TurnEnds
SpecPurge ==
    /\ Init
    /\ [][PurgeNext]_vars
    /\ WF_vars(Sweep) /\ WF_vars(Tick) /\ WF_vars(TurnEnds)

\* A client that keeps its token while the session it was issued for ends,
\* by a close request or the sweep, and somebody else starts the sid again.
OtherStart == [cwd |-> <<"a">>, name |-> "dev"]
StatelessNext ==
    \/ \E s \in Sids : Start(s, PlainStart, TRUE)
    \/ \E s \in Sids : StartFor(s, OtherStart, TRUE, FALSE)
    \/ \E s \in Sids : Close(s)
    \/ Sweep
    \/ Tick
    \/ \E c \in Conns, s \in Sids, k \in {0, 6} : Upgrade(c, PtyPath, s, k)
    \/ \E c \in Conns : WsClose(c)
    \/ TurnEnds
SpecStateless == Init /\ [][StatelessNext]_vars

\* The working directory of a new session: start requests with every
\* requested directory, and the closes that let a sid start again.
PathNext ==
    \/ \E s \in Sids \cup {NoSid}, opt \in PathOpts : Start(s, opt, TRUE)
    \/ \E s \in Sids \cup {NoSid} : Close(s)
    \/ TurnEnds
SpecPath == Init /\ [][PathNext]_vars

\* ------------------------------------------------------ the codec's steps
\* createToken(sid) at the current time.
TokIssue(s) ==
    /\ tsid = <<>>
    /\ tsid' = s
    /\ texp' = tnow + TOKEN_TTL
    /\ ttok' = createToken(s, tnow)
    /\ UNCHANGED <<tnow, ttamper, vsid, vnow, vres>>
    /\ UNCHANGED <<svars, cvars, bvars, avars>>

\* The token is altered before it is presented.
TokTamper(k) ==
    /\ tsid # <<>>
    /\ ttamper = 0
    /\ vres = "none"
    /\ ttamper' = k
    /\ ttok' = Tamper(k, ttok)
    /\ UNCHANGED <<tnow, tsid, texp, vsid, vnow, vres>>
    /\ UNCHANGED <<svars, cvars, bvars, avars>>

\* Time passes.
TokTick ==
    /\ tnow < MaxTime
    /\ tnow' = tnow + 1
    /\ UNCHANGED <<tsid, texp, ttok, ttamper, vsid, vnow, vres>>
    /\ UNCHANGED <<svars, cvars, bvars, avars>>

\* verifyToken(s, token) at the current time.
TokVerify(s) ==
    /\ tsid # <<>>
    /\ vsid' = s
    /\ vnow' = tnow
    /\ vres' = verifyToken(s, ttok, tnow)
    /\ UNCHANGED <<tnow, tsid, texp, ttok, ttamper>>
    /\ UNCHANGED <<svars, cvars, bvars, avars>>

TokInit == TokIdle /\ SrvIdle

TokNext ==
    \/ \E s \in TokenSids : TokIssue(s)
    \/ \E k \in Tampers : TokTamper(k)
    \/ TokTick
    \/ \E s \in TokenSids : TokVerify(s)

SpecToken == TokInit /\ [][TokNext]_vars

\* --------------------------------------------------------- the shutdown
\* process.on('SIGTERM'): every stored session's process is killed, the
\* store is cleared and server.close is called.
Shutdown ==
    /\ alive
    /\ last = NoLast
    /\ boot.phase = "listening"
    /\ objs' = [o \in 1..Len(objs) |->
           IF sessions[objs[o].sid] = o THEN [objs[o] EXCEPT !.pty = "killed"]
           ELSE objs[o]]
    /\ sessions' = [s \in Sids |-> 0]
    /\ boot' = [boot EXCEPT !.phase = "closing"]
    /\ last' = [NoLast EXCEPT !.op = "sigterm"]
    /\ UNCHANGED <<alive, now, conns, held>>
    /\ UNCHANGED <<tvars, cvars, avars>>

\* The callback of server.close: every connection has ended, process.exit(0).
ProcessExit ==
    /\ alive
    /\ last = NoLast
    /\ boot.phase = "closing"
    /\ \A c \in Conns : conns[c].st \in {"new", "closed"}
    /\ Crashed
    /\ boot' = [boot EXCEPT !.phase = "exited"]
    /\ UNCHANGED <<now, held, last>>
    /\ UNCHANGED <<tvars, cvars, avars>>

\* ------------------------------------------------ the start of the server
\* Lines 12 and 17-20, then server.listen: the process exits with status 1
\* when it runs in production and SIGN_SECRET is falsy, and listens otherwise.
Startup ==
    /\ boot.phase = "loading"
    /\ LET secret == SignSecret(boot.mode, boot.envSecret)
       IN  IF ~Truthy(secret) /\ boot.mode = "production"
           THEN /\ boot' = [boot EXCEPT !.phase = "exited", !.secret = secret]
                /\ alive' = FALSE
           ELSE /\ boot' = [boot EXCEPT !.phase = "listening", !.secret = secret]
                /\ alive' = TRUE
    /\ UNCHANGED <<now, sessions, objs, conns, held, last>>
    /\ UNCHANGED <<tvars, cvars, avars>>

\* createToken(s) in the listening server, with the secret it started with.
IssueUnder(s) ==
    /\ alive
    /\ tsid = <<>>
    /\ tsid' = s
    /\ texp' = tnow + TOKEN_TTL
    /\ ttok' = createTokenUnder(boot.secret.value, s, tnow)
    /\ UNCHANGED <<tnow, ttamper, vsid, vnow, vres>>
    /\ UNCHANGED <<svars, cvars, bvars, avars>>

\* verifyToken(s, token) in the listening server.
VerifyUnder(s) ==
    /\ alive
    /\ tsid # <<>>
    /\ vsid' = s
    /\ vnow' = tnow
    /\ vres' = verifyTokenUnder(boot.secret.value, s, ttok, tnow)
    /\ UNCHANGED <<tnow, tsid, texp, ttok, ttamper>>
    /\ UNCHANGED <<svars, cvars, bvars, avars>>

BootInit ==
    /\ TokIdle
    /\ alive = FALSE
    /\ SrvLoaded
    /\ AppLoaded
    /\ \E mode \in Modes, envSecret \in EnvSecrets : boot = Loading(mode, envSecret)

BootNext ==
    \/ Startup
    \/ \E s \in TokenSids : IssueUnder(s)
    \/ \E s \in TokenSids : VerifyUnder(s)
    \/ TokTick

SpecBoot == BootInit /\ [][BootNext]_vars

\* The server from its start requests to its end on SIGTERM.
ShutdownNext ==
    \/ \E s \in Sids : Start(s, PlainStart, TRUE)
    \/ \E c \in Conns, s \in Sids : Upgrade(c, PtyPath, s, 0)
    \/ \E o \in 1..MaxObj : PtyExit(o)
    \/ \E c \in Conns : WsClose(c)
    \/ Shutdown
    \/ ProcessExit
    \/ TurnEnds
SpecShutdown == Init /\ [][ShutdownNext]_vars

\* Distinct payloads of the model have distinct digests.
HmacCollisionFree ==
    \A s1, s2 \in TokenSids : \A e1, e2 \in 0..(MaxTime + TOKEN_TTL + 2) :
        Hmac(SIGN_SECRET, TokenPayload(s1, e1)) = Hmac(SIGN_SECRET, TokenPayload(s2, e2))
            => (s1 = s2 /\ e1 = e2)

\* --------------------------------------------------------------- claims
\* C1 (as stated): a token created for s is accepted by verifyToken(s, _) at
\* every time before its expiry and refused at every time from its expiry on,
\* the expiry itself included.
C1_RoundTrip ==
    (vres # "none" /\ ttamper = 0 /\ vsid = tsid)
        => (vres = (IF vnow < texp THEN "true" ELSE "false"))

\* C2: a token created for one session id is refused by verifyToken for every
\* other session id, at every time.
C2_TokenBinding ==
    (vres # "none" /\ ttamper = 0 /\ vsid # tsid) => vres = "false"
C2_Witness ==
    vres = "false" /\ ttamper = 0 /\ vsid # tsid /\ vnow < texp

\* C3 (as stated): verifyToken returns, true or false, for every token string
\* it is given, whatever the fields of the token hold; it never throws.
C3_VerifyTotal ==
    vres # "throw"

\* C4: every connection in a session's client list was upgraded after
\* verifyToken accepted a token for that session's id, and the connection
\* handler has run for no connection whose verification failed or was skipped.
C4_AttachedWereVerified ==
    /\ \A o \in 1..Len(objs) : \A i \in 1..Len(objs[o].clients) :
          /\ conns[objs[o].clients[i]].st # "new"
          /\ conns[objs[o].clients[i]].auth = objs[o].sid
    /\ \A c \in Conns : conns[c].st # "new" => conns[c].auth # <<>>
C4_Witness ==
    \E o \in 1..Len(objs) :
        /\ objs[o].clients # <<>>
        /\ \E s \in Sids : s # objs[o].sid /\ sessions[s] # 0

\* C5 (as stated): an upgrade request for another path is destroyed; for the
\* pty path without sid or token it is answered 401; with a token verifyToken
\* does not accept it is answered 403; otherwise, and only then, it is upgraded.
C5_UpgradeOutcome ==
    last.op = "upgrade" =>
        last.out = (IF last.path # PtyPath THEN "destroyed"
                    ELSE IF last.sid = <<>> \/ ~last.tokGiven THEN "401"
                    ELSE IF last.verdict # "true" THEN "403"
                    ELSE "upgraded")

\* C6 (as stated): an upgrade request that is not upgraded leaves the store's
\* entries and every session object (its client list, lastSeen and process)
\* as they were.
C6_RejectionChangesNothing ==
    [][(last.op = "none" /\ last'.op = "upgrade" /\ last'.out # "upgraded")
           => UNCHANGED <<sessions, objs>>]_vars

\* C7: a start request for a sid that has an entry builds no session object
\* and changes nothing of the entry's object but lastSeen, whatever cwd and
\* name it carries; and each chunk of a process reaches every open client in
\* its object's list, whenever the client was attached.
C7_ReuseShares ==
    [][/\ (last.op = "none" /\ last'.op = "start" /\ last'.out = "200"
              /\ sessions[last'.sid] # 0)
           => /\ sessions' = sessions
              /\ objs' = [objs EXCEPT ![sessions[last'.sid]].lastSeen = now]
              /\ conns' = conns
       /\ \A o \in 1..Len(objs) :
              (Len(objs') = Len(objs) /\ objs'[o].emitted > objs[o].emitted)
                  => \A c \in Conns :
                         (Member(objs[o].clients, c) /\ conns[c].st = "open")
                             => conns'[c].frames =
                                    Append(conns[c].frames, DataFrame(o, objs'[o].emitted))
      ]_vars
C7_Witness ==
    /\ last.op = "start"
    /\ last.out = "200"
    /\ now > 0
    /\ objs[sessions[last.sid]].lastSeen = now
    /\ \E c \in Conns :
           /\ Member(objs[sessions[last.sid]].clients, c)
           /\ conns[c].st = "open"
           /\ conns[c].frames = <<ConnectedFrame, DataFrame(sessions[last.sid], 1)>>

\* C8: a start request answered 200 names a sid that has an entry, with a
\* token whose expiry is now + TOKEN_TTL and that verifyToken accepts for
\* that sid and for no other; url and wsUrl carry that sid and that token.
C8_StartResponse ==
    (last.op = "start" /\ last.out = "200") =>
        /\ last.sid \in Sids
        /\ sessions[last.sid] # 0
        /\ parseInt(ExpField(last.token)).val = now + TOKEN_TTL
        /\ verifyToken(last.sid, last.token, now) = "true"
        /\ \A s \in TokenSids \ {last.sid} : verifyToken(s, last.token, now) = "false"
        /\ UrlQuery(last.url, KeySid) = last.sid
        /\ UrlQuery(last.url, KeyToken) = last.token
        /\ UrlQuery(last.wsUrl, KeySid) = last.sid
        /\ UrlQuery(last.wsUrl, KeyToken) = last.token
C8_Witness ==
    /\ last.op = "start"
    /\ last.out = "200"
    /\ last.sid = <<"b", "&">>
    /\ now > 0
    /\ objs[sessions[last.sid]].clients # <<>>

\* C9: a close request for a sid that has an entry is answered 200, and in
\* that one step every connection in the session's client list is closed or
\* closing, the process is killed and the sid has no entry any more.
C9_CloseClosesAll ==
    [][(last.op = "none" /\ last'.op = "close" /\ last'.sid \in Sids
            /\ sessions[last'.sid] # 0)
           => /\ last'.out = "200"
              /\ sessions'[last'.sid] = 0
              /\ objs'[sessions[last'.sid]].pty = "killed"
              /\ \A c \in Conns : Member(objs[sessions[last'.sid]].clients, c)
                     => conns'[c].st \in {"closing", "closed"}
      ]_vars
C9_Witness ==
    /\ last.op = "close"
    /\ last.out = "200"
    /\ sessions[last.sid] = 0
    /\ \E o \in 1..Len(objs) :
           /\ objs[o].sid = last.sid
           /\ objs[o].pty = "killed"
           /\ Len(objs[o].clients) = MaxConn
           /\ \A c \in Conns : conns[c].obj = o /\ conns[c].st = "closing"

\* C10: a close request for a sid that has no entry is answered 404, every
\* time, and changes no entry, no session object, no connection, no context
\* record and no pending context request.
C10_CloseAbsent ==
    [][(last.op = "none" /\ last'.op = "close" /\ last'.sid \in Sids
            /\ sessions[last'.sid] = 0)
           => /\ last'.out = "404"
              /\ UNCHANGED <<alive, now, sessions, objs, conns, held,
                             contextStore, contextRequestTimes>>
      ]_vars
C10_Witness ==
    /\ last.op = "close"
    /\ last.out = "404"
    /\ \E s \in Sids : sessions[s] # 0 /\ objs[sessions[s]].clients # <<>>
    /\ \E o \in 1..Len(objs) : objs[o].sid = last.sid /\ objs[o].pty = "killed"
    /\ \E e \in Embeds : contextStore[e] # NoRecord /\ contextRequestTimes[e] >= 0

\* C11: whenever the connection handler runs for a connection whose sid has
\* no entry any more, the session having been removed by the sweep, by a
\* close request or by the exit of its process after the token was verified,
\* the connection gets one frame, the error 'Session not found', is closed by
\* the server, joins no client list and changes no session object; and every
\* message the server handles comes from a connection that joined a session.
C11_LateAttachRefused ==
    [][/\ \A c \in Conns :
              (alive' /\ conns[c].st = "upgrading" /\ conns'[c].st # "upgrading"
                   /\ sessions[conns[c].auth] = 0)
                  => /\ conns'[c].frames = <<NotFoundFrame>>
                     /\ conns'[c].st = "closing"
                     /\ conns'[c].obj = 0
                     /\ objs' = objs
                     /\ \A o \in 1..Len(objs') : ~Member(objs'[o].clients, c)
       /\ (last.op = "none" /\ last'.op = "message")
              => /\ conns[last'.conn].obj # 0
                 /\ Head(conns[last'.conn].frames) = ConnectedFrame
      ]_vars
C11_Witness ==
    \E c1, c2 \in Conns :
        /\ conns[c1].frames = <<NotFoundFrame>>
        /\ conns[c1].seen # 0
        /\ objs[conns[c1].seen].pty = "killed"
        /\ conns[c2].frames = <<NotFoundFrame>>
        /\ conns[c2].seen # 0
        /\ objs[conns[c2].seen].pty = "exited"

\* C12: an attach to a session that has an entry appends the connection to
\* that session's client list, sets lastSeen to now, sends 'connected' to
\* that connection and touches no other connection; the first frame of every
\* connection that joined a session is 'connected', no later frame is, and
\* every listed client has it, however the process writes in between.
C12_ConnectedFirst ==
    [][/\ (last.op = "none" /\ last'.op = "upgrade" /\ last'.out = "upgraded"
              /\ sessions[last'.sid] # 0)
           => \E c \in Conns :
                  /\ NextConn(c)
                  /\ conns'[c].st = "open"
                  /\ conns'[c].frames = <<ConnectedFrame>>
                  /\ objs' = [objs EXCEPT
                                 ![sessions[last'.sid]].clients = Append(@, c),
                                 ![sessions[last'.sid]].lastSeen = now]
                  /\ \A d \in Conns \ {c} : conns'[d] = conns[d]
       /\ \A c \in Conns :
              /\ conns'[c].obj # 0
                    => /\ conns'[c].frames # <<>>
                       /\ Head(conns'[c].frames) = ConnectedFrame
              /\ \A i \in 2..Len(conns'[c].frames) :
                     conns'[c].frames[i] # ConnectedFrame
       /\ \A o \in 1..Len(objs') : \A i \in 1..Len(objs'[o].clients) :
              conns'[objs'[o].clients[i]].obj = o
      ]_vars
C12_Witness ==
    \E c1, c2 \in Conns : \E o \in 1..Len(objs) :
        /\ conns[c1].frames = <<ConnectedFrame, DataFrame(o, 1), DataFrame(o, 2)>>
        /\ conns[c2].frames = <<ConnectedFrame, DataFrame(o, 2)>>
        /\ objs[o].clients = <<c1, c2>>

\* C13: when a connection closes, it is taken out of the client list of the
\* session object it joined and nothing else changes: the store, the process
\* and every other client stay, also when the list becomes empty; and an
\* attach to the sid afterwards joins the object the store holds for it.
C13_DetachOnly ==
    [][/\ \A c \in Conns :
              (alive' /\ conns[c].st \in {"open", "closing"} /\ conns'[c].st = "closed")
                  => /\ sessions' = sessions
                     /\ \A d \in Conns \ {c} : conns'[d] = conns[d]
                     /\ conns'[c].frames = conns[c].frames
                     /\ objs' = IF conns[c].obj = 0 THEN objs
                                ELSE [objs EXCEPT ![conns[c].obj].clients =
                                         SelectSeq(@, LAMBDA x : x # c)]
       /\ (last.op = "none" /\ last'.op = "upgrade" /\ last'.out = "upgraded"
              /\ sessions[last'.sid] # 0)
           => \E c \in Conns :
                  /\ NextConn(c)
                  /\ conns'[c].obj = sessions[last'.sid]
                  /\ Member(objs'[sessions[last'.sid]].clients, c)
      ]_vars
C13_Witness ==
    \E o \in 1..Len(objs) :
        /\ conns[1].st = "closed"
        /\ conns[1].obj = o
        /\ conns[2].st = "open"
        /\ conns[2].obj = o
        /\ conns[2].frames = <<ConnectedFrame, DataFrame(o, 1)>>
        /\ conns[1].frames = <<ConnectedFrame>>
        /\ objs[o].clients = <<2>>
        /\ objs[o].pty = "running"
        /\ sessions[objs[o].sid] = o

\* C14: each chunk a process emits is appended, as it is, to the frames of
\* every open client in its object's list and to no other connection; so the
\* chunks a connection has received are those of the object it joined, each
\* once and in the order of emission, up to the last one emitted while it is
\* open and listed; and a connection that is closing or closed receives
\* nothing more.
C14_Broadcast ==
    [][/\ \A o \in 1..Len(objs) :
              objs'[o].emitted # objs[o].emitted
                  => /\ objs'[o].emitted = objs[o].emitted + 1
                     /\ \A c \in Conns :
                            conns'[c].frames =
                                IF Member(objs[o].clients, c) /\ conns[c].st = "open"
                                THEN Append(conns[c].frames, DataFrame(o, objs'[o].emitted))
                                ELSE conns[c].frames
       /\ \A c \in Conns :
              /\ conns[c].st \in {"closing", "closed"}
                    => conns'[c].frames = conns[c].frames
              /\ \A i \in 2..Len(conns'[c].frames) :
                     /\ conns'[c].frames[i].type = "data"
                     /\ conns'[c].frames[i].obj = conns'[c].obj
                     /\ i > 2 => conns'[c].frames[i].n = conns'[c].frames[i - 1].n + 1
              /\ (conns'[c].st = "open" /\ Len(conns'[c].frames) > 1)
                    => conns'[c].frames[Len(conns'[c].frames)].n
                           = objs'[conns'[c].obj].emitted
      ]_vars
C14_Witness ==
    \E c1, c2 \in Conns : \E o \in 1..Len(objs) :
        /\ conns[c1].st = "open"
        /\ conns[c1].frames = <<ConnectedFrame, DataFrame(o, 1), DataFrame(o, 2)>>
        /\ conns[c2].st = "closed"
        /\ conns[c2].frames = <<ConnectedFrame, DataFrame(o, 1)>>
        /\ conns[c2].obj = o
        /\ objs[o].emitted = MaxChunks

\* The connection of the latest upgrade.
LastConn == CHOOSE c \in Conns :
                conns[c].st # "new" /\ \A d \in Conns : d > c => conns[d].st = "new"

\* C15: when the sweep has run, no sid has an entry whose lastSeen lies more
\* than SESSION_TIMEOUT before now, with or without clients in its list; and
\* a connection upgraded for a sid that has no entry gets 'Session not
\* found', is closed and joins no session.
C15_SweepReaps ==
    /\ last.op = "sweep"
          => \A s \in Sids :
                 sessions[s] # 0 => ~(now - objs[sessions[s]].lastSeen > SESSION_TIMEOUT)
    /\ (last.op = "upgrade" /\ last.out = "upgraded" /\ sessions[last.sid] = 0)
          => /\ conns[LastConn].frames = <<NotFoundFrame>>
             /\ conns[LastConn].st = "closing"
             /\ conns[LastConn].obj = 0
             /\ \A o \in 1..Len(objs) : ~Member(objs[o].clients, LastConn)
C15_Witness ==
    /\ last.op = "upgrade"
    /\ last.out = "upgraded"
    /\ sessions[last.sid] = 0
    /\ conns[LastConn].frames = <<NotFoundFrame>>
    /\ \E o \in 1..Len(objs) :
           /\ objs[o].sid = last.sid
           /\ objs[o].pty = "killed"
           /\ objs[o].clients # <<>>
           /\ now - objs[o].lastSeen > SESSION_TIMEOUT

\* C16 (as stated): a sweep that removes a session's entry kills its process
\* and leaves every connection of its client list closing or closed, in that
\* step; so every open connection in a client list belongs to a session
\* object the store holds.
C16_SweepClosesClients ==
    [][/\ (last.op = "none" /\ last'.op = "sweep")
           => \A s \in Sids :
                  (sessions[s] # 0 /\ sessions'[s] = 0)
                      => /\ objs'[sessions[s]].pty = "killed"
                         /\ \A c \in Conns :
                                Member(objs[sessions[s]].clients, c)
                                    => conns'[c].st \in {"closing", "closed"}
       /\ \A o \in 1..Len(objs') : \A c \in Conns :
              (Member(objs'[o].clients, c) /\ conns'[c].st = "open")
                  => sessions'[objs'[o].sid] = o
      ]_vars

\* C17 (as stated): when a process exits, every connection in its object's
\* client list has the error frame as its last frame and is closing or
\* closed, and the sid has no entry, all in that one step; a connection
\* whose last frame is the error frame receives nothing more.
C17_ExitNotifiesAll ==
    [][/\ \A o \in 1..Len(objs) :
              (alive' /\ objs[o].pty # "exited" /\ objs'[o].pty = "exited")
                  => /\ sessions'[objs[o].sid] = 0
                     /\ \A c \in Conns :
                            Member(objs[o].clients, c)
                                => /\ conns'[c].st \in {"closing", "closed"}
                                   /\ conns'[c].frames[Len(conns'[c].frames)] = ExitFrame
       /\ \A c \in Conns :
              (conns[c].frames # <<>> /\ conns[c].frames[Len(conns[c].frames)] = ExitFrame)
                  => conns'[c].frames = conns[c].frames
      ]_vars

\* C17 (amended): when a process exits, every open connection in its
\* object's client list is sent the error frame and closed, no other
\* connection changes, every connection in the list is closing or closed
\* afterwards, and the sid has no entry, all in that one step; a connection
\* whose last frame is the error frame receives nothing more.  Connections
\* the server is already closing are sent nothing.
C17_ExitNotifiesOpen ==
    [][/\ \A o \in 1..Len(objs) :
              (alive' /\ objs[o].pty # "exited" /\ objs'[o].pty = "exited")
                  => /\ sessions'[objs[o].sid] = 0
                     /\ \A c \in Conns :
                            IF Member(objs[o].clients, c) /\ conns[c].st = "open"
                            THEN /\ conns'[c].st = "closing"
                                 /\ conns'[c].frames = Append(conns[c].frames, ExitFrame)
                            ELSE conns'[c] = conns[c]
                     /\ \A c \in Conns :
                            Member(objs[o].clients, c)
                                => conns'[c].st \in {"closing", "closed"}
       /\ \A c \in Conns :
              (conns[c].frames # <<>> /\ conns[c].frames[Len(conns[c].frames)] = ExitFrame)
                  => conns'[c].frames = conns[c].frames
      ]_vars
C17_Witness ==
    \E o \in 1..Len(objs) :
        /\ objs[o].pty = "exited"
        /\ objs[o].clients = <<1, 2>>
        /\ sessions[objs[o].sid] = 0
        /\ conns[1].st = "closing"
        /\ conns[1].frames = <<ConnectedFrame, DataFrame(o, 1), ExitFrame>>
        /\ conns[2].st = "closing"
        /\ conns[2].frames = <<ConnectedFrame, ExitFrame>>
        /\ objs[o].emitted = 1

\* C18 (as stated): once a session has been closed or reaped, no message of
\* any client is forwarded to its process, also not from clients that joined
\* before and whose socket has not closed yet; and a connection upgraded for
\* its sid is told 'Session not found'.
C18_ClosedIsUnusable ==
    [][/\ \A o \in 1..Len(objs) :
              (alive' /\ objs[o].pty # "running")
                  => objs'[o].forwarded = objs[o].forwarded
       /\ \A c \in Conns :
              (alive' /\ conns[c].st = "upgrading" /\ conns'[c].st # "upgrading"
                   /\ sessions[conns[c].auth] = 0)
                  => conns'[c].frames = <<NotFoundFrame>>
      ]_vars

\* C19 (as stated): a pull for an embed id that has no record is answered
\* 200 with {docs: [], viewport: null, updatedAt: null}, and no pull changes
\* the context store.
C19_PullDefault ==
    [][(last.op = "none" /\ last'.op = "pull")
           => /\ contextStore' = contextStore
              /\ contextStore[last'.embed] = NoRecord
                    => /\ last'.out = "200"
                       /\ last'.body = [docs |-> 0, viewport |-> NullViewport,
                                         updatedAt |-> -1]
      ]_vars

\* C20: a push whose docs is no list is answered 400 and leaves
\* the context store as it was; a push whose docs is a list is accepted and
\* stores the viewport if it has four finite numbers x, y, width, height,
\* and null otherwise.
C20_PushValidation ==
    [][(last.op = "none" /\ last'.op = "push")
           => IF last'.body.docs < 0
              THEN /\ last'.out = "400"
                   /\ contextStore' = contextStore
              ELSE /\ last'.out = "200"
                   /\ contextStore'[last'.embed].docs = last'.body.docs
                   /\ contextStore'[last'.embed].viewport =
                          (LET v == last'.body.viewport
                           IN  IF ~v.null /\ v.x = "1" /\ v.y = "1"
                                  /\ v.width = "1" /\ v.height = "1"
                               THEN v ELSE NullViewport)
      ]_vars
C20_Witness ==
    /\ last.op = "push" /\ last.out = "200"
    /\ last.body.viewport = [FullViewport EXCEPT !.width = ""]
    /\ contextStore[last.embed].docs = last.body.docs
    /\ contextStore[last.embed].viewport = NullViewport
    /\ contextStore[last.embed].updatedAt = now

\* C21: GET /api/context/requests answers exactly the embed ids whose
\* recorded request time t has now - t < CONTEXT_REQUEST_TTL_MS, and leaves
\* in the Map exactly those entries, unchanged; a request for context records
\* now for its embed id, over whatever was recorded, and touches no other
\* entry.
C21_RequestTtl ==
    [][/\ (last.op = "none" /\ last'.op = "poll")
           => /\ last'.embedIds =
                     {e \in Embeds : contextRequestTimes[e] >= 0
                         /\ now - contextRequestTimes[e] < CONTEXT_REQUEST_TTL_MS}
              /\ \A e \in Embeds :
                     contextRequestTimes'[e] =
                         IF e \in last'.embedIds THEN contextRequestTimes[e] ELSE -1
       /\ (last.op = "none" /\ last'.op = "ask")
           => /\ contextRequestTimes'[last'.embed] = now
              /\ \A e \in Embeds \ {last'.embed} :
                     contextRequestTimes'[e] = contextRequestTimes[e]
      ]_vars
C21_Witness ==
    /\ last.op = "poll"
    /\ now = MaxTime
    /\ last.embedIds = {"e"}
    /\ contextRequestTimes["e"] = now
    /\ contextRequestTimes[RequestsWord] = -1
    /\ contextStore[RequestsWord] # NoRecord

\* C22: a start request that creates a session hands the shell a directory
\* that is the allowed root, lies beneath it by whole path components, or is
\* the home directory: the requested directory resolved against the root
\* when that stays inside the root, the home directory otherwise; and the
\* request is answered with success.
C22_PathSafety ==
    [][(last.op = "none" /\ last'.op = "start" /\ Len(objs') = Len(objs) + 1)
        => LET d == objs'[Len(objs')].cwd
               resolved == pathResolve(ALLOWED_ROOT, last'.cwd)
               inside == \/ resolved = ALLOWED_ROOT
                         \/ startsWith(resolved, ALLOWED_ROOT \o <<"/">>)
           IN  /\ last'.out = "200"
               /\ d = IF last'.cwd # <<>> /\ inside THEN resolved ELSE HomeDir
      ]_vars

\* C23: a process started in production with no signing secret, unset or
\* empty, exits at startup: it never listens, never issues and never
\* verifies a token; and a listening server signs with the fixed fallback
\* secret only when it runs outside production with no secret configured,
\* and with the configured secret otherwise.
C23_ProductionNeedsSecret ==
    LET unconfigured == ~boot.envSecret.set \/ boot.envSecret.value = <<>>
    IN  /\ (boot.mode = "production" /\ unconfigured)
            => /\ ~alive
               /\ boot.phase \in {"loading", "exited"}
               /\ tsid = <<>> /\ ttok = <<>> /\ vres = "none"
        /\ (boot.mode = "production" /\ unconfigured /\ boot.phase # "loading")
            => boot.phase = "exited"
        /\ boot.phase = "listening"
            => /\ alive
               /\ boot.secret.set
               /\ boot.secret.value =
                      IF unconfigured THEN DevSecret ELSE boot.envSecret.value
               /\ (unconfigured => boot.mode # "production")
C23_Witness ==
    /\ boot.mode = "production"
    /\ boot.envSecret = Str(<<>>)
    /\ boot.phase = "exited"
    /\ ~alive

\* C24: the response to a request carries a CORS header only when the
\* request's Origin contains miro.com, localhost or 127.0.0.1, and then the
\* Access-Control-Allow-Origin header names that origin; the response to a
\* request with any other Origin, or with none, carries no CORS header.
C24_CorsAllowList ==
    last.op \in {"options", "health"}
        => LET listed == /\ last.origin.set
                         /\ \/ includes(last.origin.value, MiroHost)
                            \/ includes(last.origin.value, LocalHost)
                            \/ includes(last.origin.value, LoopbackHost)
           IN  /\ ~listed => last.headers = {}
               /\ listed => Header("Access-Control-Allow-Origin", last.origin.value)
                                 \in last.headers

\* C25: once a session has been removed and a later start has created a new
\* session under the same id, no event of the old session (the exit of its
\* process, a message or a disconnect of one of its clients) removes the new
\* session's store entry or changes the new session: its client list, its
\* lastSeen and its process stay as they are.
C25_OldSessionIsInert ==
    [][\A o \in 1..Len(objs) :
          LET n == sessions[objs[o].sid]
          IN  (/\ n # 0 /\ n # o
               /\ alive'
               /\ \/ objs[o].pty # "exited" /\ objs'[o].pty = "exited"
                  \/ last.op = "none" /\ last'.op = "message"
                         /\ conns[last'.conn].obj = o
                  \/ \E c \in Conns : /\ conns[c].obj = o
                                       /\ conns[c].st # "closed"
                                       /\ conns'[c].st = "closed")
              => /\ sessions'[objs[o].sid] = n
                 /\ objs'[n] = objs[n]
      ]_vars

\* C26: every process that was spawned and has neither exited nor been
\* killed is held by the store entry of the session id it was spawned for,
\* and by no other entry; and no store entry holds a killed process.
C26_NoOrphanedShell ==
    /\ \A o \in 1..Len(objs) :
           objs[o].pty = "running"
               => /\ sessions[objs[o].sid] = o
                  /\ \A s \in Sids : sessions[s] = o => s = objs[o].sid
    /\ \A s \in Sids :
           sessions[s] # 0 => objs[sessions[s]].pty # "killed"

\* C27: every message of an attached client, whatever its content (a frame
\* that is no JSON included), and every output chunk of the process sets the
\* session's lastSeen to the current time.
C27_ActivityRefreshes ==
    [][/\ (last.op = "none" /\ last'.op = "message")
           => objs'[conns[last'.conn].obj].lastSeen = now
       /\ \A o \in 1..Len(objs) :
              objs'[o].emitted > objs[o].emitted => objs'[o].lastSeen = now
      ]_vars

\* C28: a frame that is no JSON, has a type other than input and resize, is
\* an input whose data is no string or a resize whose cols or rows is no
\* number is dropped: nothing is written to or resized on a process, every
\* connection, the sender's included, stays as it is, every client list and
\* the store stay as they are, and the server runs on.
C28_InvalidFrameDropped ==
    [][(/\ last.op = "none" /\ last'.op = "message"
        /\ \/ ~last'.msg.json
           \/ last'.msg.type \notin {"input", "resize"}
           \/ ~last'.msg.ok)
        => /\ alive'
           /\ conns' = conns
           /\ sessions' = sessions
           /\ Len(objs') = Len(objs)
           /\ \A o \in 1..Len(objs) :
                  /\ objs'[o].forwarded = objs[o].forwarded
                  /\ objs'[o].pty = objs[o].pty
                  /\ objs'[o].clients = objs[o].clients
                  /\ objs'[o].emitted = objs[o].emitted
      ]_vars
C28_Witness ==
    /\ last.op = "message"
    /\ last.msg = [json |-> TRUE, type |-> "resize", ok |-> FALSE]
    /\ conns[last.conn].st = "open"
    /\ LET o == conns[last.conn].obj
       IN  /\ sessions[objs[o].sid] = o
           /\ objs[o].pty = "running"
           /\ objs[o].forwarded = 0
           /\ \E c \in Conns \ {last.conn} : conns[c].st = "open" /\ conns[c].obj = o

C30_StartRegistersSid ==
    [][(/\ last.op = "none" /\ last'.op = "start" /\ last'.out = "200"
        /\ (last'.reqSid = NoSid \/ sessions[last'.reqSid] = 0))
        => /\ Len(objs') = Len(objs) + 1
           /\ \A o \in 1..Len(objs) : objs'[o] = objs[o]
           /\ objs'[Len(objs')].sid = last'.sid
           /\ objs'[Len(objs')].pty = "running"
           /\ objs'[Len(objs')].clients = <<>>
           /\ last'.reqSid # NoSid => last'.sid = last'.reqSid
           /\ sessions[last'.sid] = 0
           /\ sessions'[last'.sid] = Len(objs')
           /\ \A s \in Sids \ {last'.sid} : sessions'[s] = sessions[s]
      ]_vars
C30_Witness ==
    /\ last.op = "start" /\ last.out = "200"
    /\ last.reqSid = <<"a">> /\ last.sid = <<"a">>
    /\ Len(objs) = 2
    /\ objs[1].sid = <<"a">> /\ objs[1].pty = "killed"
    /\ objs[2].sid = <<"a">> /\ objs[2].pty = "running"
    /\ sessions[<<"a">>] = 2

\* C31: a pull for an embed id that has a record, whatever the id reads
\* like, is answered with exactly that record (the docs, the normalized
\* viewport and the time of the latest accepted push to it) and changes no
\* record; an accepted push to an id writes that id's record and no other;
\* and no step deletes a record.
C31_ContextRoundTrip ==
    [][/\ (last.op = "none" /\ last'.op = "pull")
           => /\ contextStore' = contextStore
              /\ contextStore[last'.embed] # NoRecord
                    => last'.body = contextStore[last'.embed]
       /\ (last.op = "none" /\ last'.op = "push" /\ last'.out = "200")
           => /\ contextStore'[last'.embed].docs = last'.body.docs
              /\ contextStore'[last'.embed].updatedAt = now
              /\ \A e \in Embeds \ {last'.embed} : contextStore'[e] = contextStore[e]
       /\ \A e \in Embeds : contextStore[e] # NoRecord => contextStore'[e] # NoRecord
      ]_vars

\* C32: an entry of the context-request Map that has reached the TTL is
\* eventually deleted, whether or not GET /api/context/requests is called
\* again.
C32_PurgeOnTimer ==
    \A e \in Embeds :
        (contextRequestTimes[e] >= 0
            /\ now - contextRequestTimes[e] >= CONTEXT_REQUEST_TTL_MS)
        ~> (contextRequestTimes[e] = -1)

\* C33: a sweep removes the entry of a session only if now - lastSeen >
\* SESSION_TIMEOUT; a session whose lastSeen is within the timeout, the
\* timeout itself included, is left as it was by the sweep: its entry, its
\* process, its lastSeen, its client list and its clients' connections.
C33_SweepFrame ==
    [][(last.op = "none" /\ last'.op = "sweep")
        => \A s \in Sids :
              LET o == sessions[s]
              IN  o # 0 =>
                    IF now - objs[o].lastSeen <= SESSION_TIMEOUT
                    THEN /\ sessions'[s] = o
                         /\ objs'[o] = objs[o]
                         /\ \A c \in Conns : conns[c].obj = o => conns'[c] = conns[c]
                    ELSE sessions'[s] = 0
      ]_vars
C33_Witness ==
    /\ last.op = "sweep"
    /\ Len(objs) = 2
    /\ objs[1].pty = "killed" /\ sessions[objs[1].sid] = 0
    /\ objs[1].lastSeen < now
    /\ objs[2].pty = "running" /\ sessions[objs[2].sid] = 2
    /\ objs[2].lastSeen = now
    /\ \E c \in Conns : conns[c].obj = 2 /\ conns[c].st = "open"

\* C34: whether a token is accepted does not depend on the session store: an
\* upgrade that presents, for its sid, the token a start response gave is
\* accepted before the token's expiry and refused after it, whatever has
\* happened to the session since; when accepted it attaches to the session
\* the store holds under that sid now, and gets 'Session not found' when the
\* store holds none.
C34_TokenStateless ==
    [][(/\ last.op = "none" /\ last'.op = "upgrade" /\ last'.path = PtyPath
        /\ held.sid # NoSid /\ last'.sid = held.sid
        /\ last'.token = createToken(held.sid, held.at))
        => \A c \in Conns :
              (conns[c].st = "new" /\ \A d \in Conns : d < c => conns[d].st # "new")
              => /\ now < held.at + TOKEN_TTL
                    => /\ last'.verdict = "true"
                       /\ last'.out = "upgraded"
                       /\ conns'[c].auth = held.sid
                       /\ IF sessions[held.sid] = 0
                          THEN /\ conns'[c].frames = <<NotFoundFrame>>
                               /\ conns'[c].obj = 0
                          ELSE /\ conns'[c].obj = sessions[held.sid]
                               /\ conns'[c].st = "open"
                 /\ now > held.at + TOKEN_TTL
                    => /\ last'.verdict = "false"
                       /\ last'.out = "403"
                       /\ conns'[c] = conns[c]
      ]_vars
C34_Witness ==
    /\ last.op = "upgrade" /\ last.out = "upgraded"
    /\ last.sid = held.sid
    /\ now < held.at + TOKEN_TTL
    /\ Len(objs) = 2
    /\ objs[1].sid = held.sid /\ objs[1].pty = "killed" /\ objs[1].name = "terminal"
    /\ objs[2].sid = held.sid /\ objs[2].pty = "running" /\ objs[2].name = "dev"
    /\ sessions[held.sid] = 2
    /\ objs[2].clients = <<1>>

\* C35: a start request whose spawn fails is answered with an error and
\* changes nothing: no entry is added for the sid it named or the id that
\* was generated, no session object is built, no token is issued, and every
\* session and connection stays as it was; the sid has no entry afterwards,
\* so that a later start for it spawns again.
C35_SpawnFailure ==
    [][(last.op = "none" /\ last'.op = "start" /\ last'.out # "200")
        => /\ last'.out = "500"
           /\ last'.token = <<>> /\ last'.url = <<>> /\ last'.wsUrl = <<>>
           /\ held' = held
           /\ sessions' = sessions
           /\ objs' = objs
           /\ conns' = conns
           /\ last'.reqSid # NoSid => sessions'[last'.reqSid] = 0
      ]_vars
C35_Witness ==
    /\ last.op = "start" /\ last.out = "500"
    /\ last.reqSid = <<"a">>
    /\ sessions[<<"a">>] = 0
    /\ sessions[<<"b", "&">>] # 0
    /\ \E c \in Conns : conns[c].st = "open" /\ conns[c].obj = sessions[<<"b", "&">>]

\* C36: the SIGTERM handler kills the process of every stored session and
\* leaves the store empty; from then until the process ends the store stays
\* empty, no session object is built and no connection joins a session; and
\* when the process ends every connection has closed.
C36_ShutdownClosesAll ==
    [][/\ (last.op = "none" /\ last'.op = "sigterm")
           => /\ \A s \in Sids : sessions'[s] = 0
              /\ \A s \in Sids : sessions[s] # 0 => objs'[sessions[s]].pty = "killed"
       /\ boot.phase = "closing"
           => /\ \A s \in Sids : sessions'[s] = 0
              /\ Len(objs') = Len(objs)
              /\ \A o \in 1..Len(objs) : Len(objs'[o].clients) <= Len(objs[o].clients)
       /\ (boot.phase = "closing" /\ boot'.phase = "exited")
           => \A c \in Conns : conns'[c].st \in {"new", "closed"}
      ]_vars

\* ------------------------------------------------------------ the EventBus
\* src/apps/miro-app/src/core/bus/eventBus.ts, for one channel:event key.
Subscribed(b, f) == Member(b.subscriptions, f)

\* entries.delete(entry) for every entry of a toRemove list.
Without(seq, toRemove) == SelectSeq(seq, LAMBDA f : f \notin toRemove)

\* What emit puts on toRemove after the handler of entry f has returned.
OnceEntry(b, f) == IF b.kind[f] = "once" THEN {f} ELSE {}

\* The loop of emit over the entries of the Set and the removals after it
\* (lines 139-154). todo holds the entries the iteration has not reached; an
\* entry deleted meanwhile is not visited. A handler that throws is caught
\* and skips toRemove.push; a handler that emits runs a whole emit, nested,
\* before it returns.
RECURSIVE emitLoop(_, _, _, _)
emitLoop(b, todo, toRemove, depth) ==
    IF todo = <<>>
    THEN [b EXCEPT !.subscriptions = Without(@, toRemove)]
    ELSE LET f == Head(todo)
             called == [b EXCEPT !.calls[f] = IF @ < MaxCalls THEN @ + 1 ELSE @]
             after == IF b.does[f] = "emits" /\ depth < MaxDepth
                      THEN emitLoop(called, called.subscriptions, {}, depth + 1)
                      ELSE called
         IN  IF ~Subscribed(b, f)
             THEN emitLoop(b, Tail(todo), toRemove, depth)
             ELSE IF b.does[f] = "throws"
             THEN emitLoop(after, Tail(todo), toRemove, depth)
             ELSE emitLoop(after, Tail(todo), toRemove \cup OnceEntry(b, f), depth)

\* The loop of emitAsync (lines 179-193), which has no try: a handler that
\* throws ends the call at once, before any removal.
RECURSIVE emitAsyncLoop(_, _, _)
emitAsyncLoop(b, todo, toRemove) ==
    IF todo = <<>>
    THEN [bus |-> b, toRemove |-> toRemove, threw |-> FALSE]
    ELSE LET f == Head(todo)
             called == [b EXCEPT !.calls[f] = IF @ < MaxCalls THEN @ + 1 ELSE @]
             after == IF b.does[f] = "emits" /\ 0 < MaxDepth
                      THEN emitLoop(called, called.subscriptions, {}, 1)
                      ELSE called
         IN  IF ~Subscribed(b, f)
             THEN emitAsyncLoop(b, Tail(todo), toRemove)
             ELSE IF b.does[f] = "throws"
             THEN [bus |-> after, toRemove |-> toRemove, threw |-> TRUE]
             ELSE emitAsyncLoop(after, Tail(todo), toRemove \cup OnceEntry(b, f))

\* bus.on(channel, event, f)
On(f, does) ==
    /\ bus.kind[f] = "none"
    /\ bus' = [bus EXCEPT !.subscriptions = Append(@, f),
                          !.kind[f] = "on", !.does[f] = does]
    /\ UNCHANGED <<tvars, svars, cvars, bvars, registry>>

\* bus.once(channel, event, f)
Once(f, does) ==
    /\ bus.kind[f] = "none"
    /\ bus' = [bus EXCEPT !.subscriptions = Append(@, f),
                          !.kind[f] = "once", !.does[f] = does]
    /\ UNCHANGED <<tvars, svars, cvars, bvars, registry>>

\* The unsubscribe function on or once returned for f.
Unsubscribe(f) ==
    /\ Subscribed(bus, f)
    /\ bus' = [bus EXCEPT !.subscriptions = Without(@, {f})]
    /\ UNCHANGED <<tvars, svars, cvars, bvars, registry>>

\* bus.emit(channel, event, payload)
Emit ==
    /\ \A f \in Handlers : bus.calls[f] < MaxCalls
    /\ bus' = emitLoop(bus, bus.subscriptions, {}, 0)
    /\ UNCHANGED <<tvars, svars, cvars, bvars, registry>>

\* bus.emitAsync(channel, event, payload), up to await Promise.all(promises).
\* With no entry it returns at line 173; when a handler throws, the promise
\* of the call is rejected and the lines after the loop never run.
EmitAsync ==
    /\ \A f \in Handlers : bus.calls[f] < MaxCalls
    /\ Len(bus.awaiting) < MaxAwaiting
    /\ bus.subscriptions # <<>>
    /\ LET r == emitAsyncLoop(bus, bus.subscriptions, {})
       IN  bus' = IF r.threw THEN r.bus
                  ELSE [r.bus EXCEPT !.awaiting = Append(@, r.toRemove)]
    /\ UNCHANGED <<tvars, svars, cvars, bvars, registry>>

\* The earliest emitAsync call resumes after its await (lines 197-200).
EmitAsyncResumes ==
    /\ bus.awaiting # <<>>
    /\ bus' = [bus EXCEPT !.subscriptions = Without(@, Head(bus.awaiting)),
                          !.awaiting = Tail(@)]
    /\ UNCHANGED <<tvars, svars, cvars, bvars, registry>>

BusNext ==
    \/ \E f \in Handlers, does \in Does : On(f, does)
    \/ \E f \in Handlers, does \in Does : Once(f, does)
    \/ \E f \in Handlers : Unsubscribe(f)
    \/ Emit
    \/ EmitAsync
    \/ EmitAsyncResumes

SpecBus == Init /\ [][BusNext]_vars

\* C37: a handler subscribed with once is invoked at most once, whatever
\* sequence of emit and emitAsync calls follows, whether it returns or throws
\* and whether or not a handler emits the same event; and once it has been
\* invoked it is no longer subscribed.
C37_OnceAtMostOnce ==
    \A f \in Handlers :
        bus.kind[f] = "once"
            => /\ bus.calls[f] <= 1
               /\ bus.calls[f] >= 1 => ~Subscribed(bus, f)

\* ------------------------------------------------------ the ModuleRegistry
\* src/apps/miro-app/src/core/discovery/moduleRegistry.ts, for one module id.
\* entry.info.state of the entry the Map holds for the id, "none" without one.
StateOf(r) == IF r.modules = 0 THEN "none" ELSE r.entries[r.modules]

\* The sequence without its k-th element.
DropAt(seq, k) == [i \in 1..(Len(seq) - 1) |-> IF i < k THEN seq[i] ELSE seq[i + 1]]

\* register(module): throws when the id is registered, else stores a new
\* entry in state 'registered' and emits 'module:registered'.
Register ==
    IF registry.modules # 0
    THEN /\ registry' = [registry EXCEPT !.call =
                [NoCall EXCEPT !.op = "register", !.before = StateOf(registry),
                               !.threw = TRUE]]
         /\ UNCHANGED <<tvars, svars, cvars, bvars, bus>>
    ELSE /\ Len(registry.entries) < MaxEntries
         /\ registry' = [registry EXCEPT
                !.entries = Append(@, "registered"),
                !.modules = Len(registry.entries) + 1,
                !.call = [NoCall EXCEPT !.op = "register",
                                        !.emitted = "module:registered",
                                        !.registered = TRUE,
                                        !.state = "registered"]]
         /\ UNCHANGED <<tvars, svars, cvars, bvars, bus>>

\* start(id) up to await entry.module.start(options): it throws without an
\* entry, returns when the state is 'active', and otherwise sets 'loading'
\* and invokes the module's start().
StartCall ==
    /\ registry.modules # 0 /\ StateOf(registry) # "active"
        => Len(registry.pending) < MaxPending
    /\ registry' =
        IF registry.modules = 0
        THEN [registry EXCEPT !.call =
                [NoCall EXCEPT !.op = "start", !.threw = TRUE]]
        ELSE IF StateOf(registry) = "active"
        THEN [registry EXCEPT !.call =
                [NoCall EXCEPT !.op = "start", !.before = "active",
                               !.registered = TRUE, !.state = "active"]]
        ELSE [registry EXCEPT
                !.entries[registry.modules] = "loading",
                !.pending = Append(@, [op |-> "start", entry |-> registry.modules]),
                !.call = [NoCall EXCEPT !.op = "start",
                                        !.before = StateOf(registry),
                                        !.invoked = TRUE,
                                        !.registered = TRUE,
                                        !.state = "loading"]]
    /\ UNCHANGED <<tvars, svars, cvars, bvars, bus>>

\* The k-th pending call, a start, resumes: the module's start() resolved
\* (ok) or rejected. It writes to the entry it read before the await.
StartResumes(k, ok) ==
    /\ k \in 1..Len(registry.pending)
    /\ registry.pending[k].op = "start"
    /\ LET entry == registry.pending[k].entry
       IN  registry' = [registry EXCEPT
                !.entries[entry] = IF ok THEN "active" ELSE "error",
                !.pending = DropAt(@, k),
                !.call = [NoCall EXCEPT
                    !.op = "startResumes",
                    !.before = registry.entries[entry],
                    !.threw = ~ok,
                    !.emitted = IF ok THEN "module:started" ELSE "module:error",
                    !.registered = (registry.modules = entry),
                    !.state = IF ok THEN "active" ELSE "error"]]
    /\ UNCHANGED <<tvars, svars, cvars, bvars, bus>>

\* stop(id) up to await entry.module.stop(): it throws without an entry,
\* returns unless the state is 'active', and otherwise invokes stop().
StopCall ==
    /\ StateOf(registry) = "active" => Len(registry.pending) < MaxPending
    /\ registry' =
        IF registry.modules = 0
        THEN [registry EXCEPT !.call =
                [NoCall EXCEPT !.op = "stop", !.threw = TRUE]]
        ELSE IF StateOf(registry) # "active"
        THEN [registry EXCEPT !.call =
                [NoCall EXCEPT !.op = "stop", !.before = StateOf(registry),
                               !.registered = TRUE,
                               !.state = StateOf(registry)]]
        ELSE [registry EXCEPT
                !.pending = Append(@, [op |-> "stop", entry |-> registry.modules]),
                !.call = [NoCall EXCEPT !.op = "stop", !.before = "active",
                                        !.invoked = TRUE,
                                        !.registered = TRUE,
                                        !.state = "active"]]
    /\ UNCHANGED <<tvars, svars, cvars, bvars, bus>>

\* The k-th pending call, a stop, resumes.
StopResumes(k, ok) ==
    /\ k \in 1..Len(registry.pending)
    /\ registry.pending[k].op = "stop"
    /\ LET entry == registry.pending[k].entry
       IN  registry' = [registry EXCEPT
                !.entries[entry] = IF ok THEN "stopped" ELSE "error",
                !.pending = DropAt(@, k),
                !.call = [NoCall EXCEPT
                    !.op = "stopResumes",
                    !.before = registry.entries[entry],
                    !.threw = ~ok,
                    !.emitted = IF ok THEN "module:stopped" ELSE "module:error",
                    !.registered = (registry.modules = entry),
                    !.state = IF ok THEN "stopped" ELSE "error"]]
    /\ UNCHANGED <<tvars, svars, cvars, bvars, bus>>

\* unregister(id): returns without an entry, throws when the state is
\* 'active', and deletes the entry from the Map otherwise.
Unregister ==
    /\ registry' =
        IF registry.modules = 0
        THEN [registry EXCEPT !.call = [NoCall EXCEPT !.op = "unregister"]]
        ELSE IF StateOf(registry) = "active"
        THEN [registry EXCEPT !.call =
                [NoCall EXCEPT !.op = "unregister", !.before = "active",
                               !.threw = TRUE, !.registered = TRUE,
                               !.state = "active"]]
        ELSE [registry EXCEPT
                !.modules = 0,
                !.call = [NoCall EXCEPT !.op = "unregister",
                                        !.before = StateOf(registry),
                                        !.state = StateOf(registry)]]
    /\ UNCHANGED <<tvars, svars, cvars, bvars, bus>>

RegistryNext ==
    \/ Register
    \/ StartCall
    \/ \E k \in 1..MaxPending, ok \in BOOLEAN : StartResumes(k, ok)
    \/ StopCall
    \/ \E k \in 1..MaxPending, ok \in BOOLEAN : StopResumes(k, ok)
    \/ Unregister

SpecRegistry == Init /\ [][RegistryNext]_vars

\* C38: whatever the interleaving of start, stop and unregister on one
\* module id, the module's start() is never invoked while the module is
\* loading or active; 'module:started' is emitted only for a module that is
\* still registered and whose state is 'active'; and unregister of an active
\* module throws and leaves the registry unchanged.
C38_LifecycleSafe ==
    [][/\ (registry'.call.op = "start" /\ registry'.call.invoked)
           => registry'.call.before \notin {"loading", "active"}
       /\ registry'.call.emitted = "module:started"
           => registry'.call.registered /\ registry'.call.state = "active"
       /\ (registry'.call.op = "unregister" /\ registry'.call.before = "active")
           => /\ registry'.call.threw
              /\ registry'.modules = registry.modules
              /\ registry'.entries = registry.entries
              /\ registry'.pending = registry.pending
      ]_vars

====
